---- MODULE Spec2Model ----
(***************************************************************************)
(* Model of the conversion Worker of GDALRasterConverter (src/main.cpp).   *)
(*                                                                         *)
(* One Worker runs Worker::process on its own thread; the host thread may  *)
(* call Worker::requestInterruption at any moment.  GDAL is the            *)
(* environment: whether the source opens, whether the output driver        *)
(* exists, which capabilities it advertises, and the outcome of every      *)
(* Create / CreateCopy / RasterIO call are chosen nondeterministically.    *)
(*                                                                         *)
(* `events` is the ordered record of everything the Worker does that is    *)
(* visible outside it: the Qt signals it emits, the GDAL calls it makes,   *)
(* its loads of the cancellation flag and its thread-pool calls.           *)
(*                                                                         *)
(* Spec follows one Worker step by step; SpecLive adds the fairness of its *)
(* threads; SpecBlocks runs the set-up of processData on large extents;    *)
(* SpecEta runs MainWindow::updateProgress; SpecHost follows the           *)
(* MainWindow through several jobs, with Worker::process as one step.      *)
(***************************************************************************)
EXTENDS Integers, Sequences, FiniteSets, TLC

\* ------------------------------------------------------------ bounds
MaxW == 600
MaxH == 400
MaxBands == 2
MaxOptions == 1
MaxCallbacks == 3

\* ------------------------------------------------- program constants
blockSizeX == 256
blockSizeY == 256

Widths == {0, 1, blockSizeX, blockSizeX + 1, MaxW}
Heights == {0, blockSizeY, MaxH}
BandCounts == {0, 1, MaxBands}
OptionCounts == {0, MaxOptions}

\* Worker::ProcessingMode.  MainWindow::startConversion passes CPU or GPU
\* only, so the "Unknown processing mode" branch of process() is not
\* reachable and has no action here.
ProcessingMode == {"CPU", "GPU"}

\* The fractions a driver hands to the CreateCopy progress callback.  All
\* are exactly representable, so static_cast<float>(dfComplete) keeps them.
CopyFractions == {<<0, 1>>, <<1, 2>>, <<1, 1>>}

\* ------------------------------------------------------------ messages
MsgOpenFailed == "Failed to open input file"
MsgDriverUnavailable == "Output driver not available"
MsgUnsupported == "Output driver does not support Create or CreateCopy methods."
MsgNoBands == "Input dataset has no raster bands."
MsgCreateFailed == "Failed to create output dataset"
MsgCreateCopyFailed == "Failed to create output dataset using CreateCopy"
MsgReadFailed == "Failed to read data from input dataset."
MsgWriteFailed == "Failed to write data to output dataset."
MsgCancelled == "Conversion cancelled by user."
MsgGPU == "GPU processing is not yet implemented."
MsgSuccess == "Conversion completed successfully"

VARIABLES
    pc,               \* position of the worker thread in Worker::process
    isConverting,     \* Worker::isConverting (std::atomic<bool>)
    processingMode,   \* Worker::processingMode
    nOptions,         \* size of Worker::gdalOptions
    gdal,             \* what GDAL has answered so far for this job
    nXSize, nYSize, nBands,   \* the source raster's extent and band count
    poDataset,        \* source dataset: "null", "open" or "closed"
    poOutDataset,     \* destination dataset: "null", "open" or "closed"
    bCreateSupported, \* process(): result of the GDAL_DCAP_CREATE query
    x, y,             \* processData(): tile origin
    bandIndex,        \* processData(): band loop counter
    bandData,         \* processData(): the tile's band buffers read so far
    blocksCompleted,  \* processData(): completed-tile counter
    taskState,        \* the BlockProcessor of the tile: "none","queued","done"
    written,          \* band windows stored in the destination
    callbacks,        \* number of progress callbacks the driver has made
    events,           \* everything the Worker did, in order
    timerElapsed,     \* MainWindow::timer->elapsed(), in milliseconds
    progressBar,      \* MainWindow::progressBar value
    etaLabel,         \* MainWindow::etaLabel: what the label shows
    lastUpdate,       \* updateProgress(): argument and locals of the last call
    worker,           \* MainWindow::worker: 0 (nullptr) or the Worker it points to
    thread,           \* MainWindow::thread: 0 (nullptr) or the QThread it points to
    liveWorkers,      \* the Worker objects constructed and not yet deleted
    deferredDelete,   \* the Workers with a deleteLater pending in their thread
    mainQueue,        \* queued conversionFinished calls posted to the main thread
    startButton,      \* startButton->isEnabled()
    cancelButton,     \* cancelButton->isEnabled()
    nWorkers,         \* number of Workers constructed so far
    danglingUse,      \* the slot that called through a deleted Worker, or "none"
    windowClosed      \* the MainWindow has been destroyed, or the program has crashed

vars == <<pc, isConverting, processingMode, nOptions, gdal, nXSize, nYSize,
          nBands, poDataset, poOutDataset, bCreateSupported, x, y, bandIndex,
          bandData, blocksCompleted, taskState, written, callbacks, events,
          timerElapsed, progressBar, etaLabel, lastUpdate, worker, thread,
          liveWorkers, deferredDelete, mainQueue, startButton, cancelButton,
          nWorkers, danglingUse, windowClosed>>

jobVars == <<processingMode, nOptions>>
srcVars == <<nXSize, nYSize, nBands>>
loopVars == <<x, y, bandIndex, bandData, blocksCompleted, taskState, written>>
guiVars == <<worker, thread, liveWorkers, deferredDelete, mainQueue,
             startButton, cancelButton, nWorkers, danglingUse, windowClosed>>
hostVars == <<timerElapsed, progressBar, etaLabel, lastUpdate, guiVars>>
workerVars == <<pc, isConverting, jobVars, gdal, srcVars, poDataset,
                poOutDataset, bCreateSupported, loopVars, callbacks, events>>

\* ------------------------------------------------------------ helpers
Min(a, b) == IF a < b THEN a ELSE b

RECURSIVE GCD(_, _)
GCD(a, b) == IF b = 0 THEN a ELSE GCD(b, a % b)

\* static_cast<float>(n) / d as an exact fraction in lowest terms
Frac(n, d) == LET g == GCD(n, d) IN <<n \div g, d \div g>>

FracLeq(p, q) == p[1] * q[2] <= q[1] * p[2]

\* One entry of `events`.
Ev(op, ok, msg, val) == [op |-> op, ok |-> ok, msg |-> msg, val |-> val]

\* emit logMessage(msg)
Log(msg) == Ev("logMessage", TRUE, msg, <<>>)

\* emit progressUpdated(val)
Progress(val) == Ev("progressUpdated", TRUE, "", val)

\* emit finished(ok, msg)
Finished(ok, msg) == Ev("finished", ok, msg, <<>>)

\* GDALClose(which)
Close(which) == Ev("GDALClose", TRUE, which, <<>>)

\* isConverting.load() in the orchestration thread, at `where`
Load(where, val) == Ev("load", val, where, <<>>)

\* "Setting GDAL option" loop of process(): one CSLSetNameValue and one log
\* per option
RECURSIVE OptionEvents(_)
OptionEvents(n) ==
    IF n = 0 THEN <<>>
    ELSE OptionEvents(n - 1) \o <<Ev("CSLSetNameValue", TRUE, "", <<n>>),
                                  Log("Setting GDAL option")>>

\* INT_MAX and INT_MIN of the 32-bit int in which processData() counts
MaxInt32 == 2147483647
MinInt32 == -MaxInt32 - 1

\* a + b does not fit an int: signed overflow, undefined behaviour
AddOverflows(a, b) ==
    \/ a >= 0 /\ b >= 0 /\ a > MaxInt32 - b
    \/ a < 0 /\ b < 0 /\ a < MinInt32 - b

\* int a + b.  Where the sum does not fit, the behaviour is undefined; the
\* value given is the two's-complement one, and AddOverflows tells the case
AddInt32(a, b) ==
    IF a >= 0 /\ b >= 0 /\ a > MaxInt32 - b
    THEN (a - MaxInt32 - 1) + (b - MaxInt32 - 1)
    ELSE IF a < 0 /\ b < 0 /\ a < MinInt32 - b
    THEN (a + MaxInt32 + 1) + (b + MaxInt32 + 1)
    ELSE a + b

\* a * b does not fit an int (a, b >= 0)
MulOverflows(a, b) == b # 0 /\ a > MaxInt32 \div b

\* int a * b for a, b >= 0: the low 32 bits of the product as an int,
\* computed in 16-bit halves
MulNat32(a, b) ==
    LET al == a % 65536
        ah == a \div 65536
        bl == b % 65536
        bh == b \div 65536
        m == (((ah * bl) % 65536) + ((al * bh) % 65536)) % 65536
        u == (al \div 256) * bl
        w == (u % 256) * 256 + (al % 256) * bl
        hi == (m + (u \div 256) + (w \div 65536)) % 65536
    IN IF hi >= 32768 THEN (hi - 65536) * 65536 + (w % 65536)
       ELSE hi * 65536 + (w % 65536)

\* int a * b for b >= 0 and a > INT_MIN.  Where the product does not fit,
\* the behaviour is undefined; the value given is the two's-complement one,
\* and MulOverflows tells the case
MulInt32(a, b) ==
    IF a >= 0 THEN MulNat32(a, b)
    ELSE LET r == MulNat32(-a, b) IN IF r = MinInt32 THEN r ELSE -r

\* int a / b for b > 0: the quotient is truncated towards zero
DivInt32(a, b) ==
    IF a >= 0 \/ a % b = 0 THEN a \div b ELSE (a \div b) + 1

\* processData(): block counts, in int arithmetic
nXBlocks == DivInt32(AddInt32(AddInt32(nXSize, blockSizeX), -1), blockSizeX)
nYBlocks == DivInt32(AddInt32(AddInt32(nYSize, blockSizeY), -1), blockSizeY)
totalBlocks ==
    IF nYBlocks >= 0 THEN MulInt32(nXBlocks, nYBlocks)
    ELSE MulInt32(-nXBlocks, -nYBlocks)

\* one of the additions or the product of the block counts overflows
BlocksOverflow ==
    \/ AddOverflows(nXSize, blockSizeX)
    \/ AddOverflows(nYSize, blockSizeY)
    \/ MulOverflows(nXBlocks, nYBlocks)

\* faulty variant of nXBlockSize: the last column is not clipped
nXBlockSize_Unclipped == blockSizeX

\* processData(): size of the tile at the current origin
nXBlockSize == Min(blockSizeX, nXSize - x)
nYBlockSize == Min(blockSizeY, nYSize - y)

\* the window of the current tile
Tile == <<x, y, nXBlockSize, nYBlockSize>>

\* the windows that hold all nBands bands in the destination
WrittenTiles ==
    {w \in {r.window : r \in written} :
        \A b \in 1..nBands : \E r \in written : r.band = b /\ r.window = w}

\* what etaLabel shows: "ETA: Calculating..." or "ETA: hh:mm:ss"
EtaCalculating == [text |-> "ETA: Calculating...", h |-> 0, m |-> 0, s |-> 0]
EtaTime(h, m, s) == [text |-> "ETA: hh:mm:ss", h |-> h, m |-> m, s |-> s]

\* no updateProgress call yet
NoUpdate == [called |-> FALSE, progress |-> <<0, 1>>, elapsed |-> 0,
             estimatedRemaining |-> 0]

\* the window as startConversion() leaves it: Start disabled, Cancel
\* enabled, bar at 0, label "ETA: Calculating...", timer restarted, one
\* Worker constructed and moved to its thread
HostStarted ==
    /\ timerElapsed = 0
    /\ progressBar = 0
    /\ etaLabel = EtaCalculating
    /\ lastUpdate = NoUpdate
    /\ worker = 1
    /\ thread = 1
    /\ liveWorkers = {1}
    /\ deferredDelete = {}
    /\ mainQueue = <<>>
    /\ startButton = FALSE
    /\ cancelButton = TRUE
    /\ nWorkers = 1
    /\ danglingUse = "none"
    /\ windowClosed = FALSE

\* ------------------------------------------------------------ initial state
Init ==
    /\ pc = "start"
    /\ isConverting = TRUE
    /\ processingMode \in ProcessingMode
    /\ nOptions \in OptionCounts
    /\ gdal = [srcOpens |-> FALSE, driverExists |-> FALSE,
                capCreate |-> FALSE, capCreateCopy |-> FALSE]
    /\ nXSize = 0
    /\ nYSize = 0
    /\ nBands = 0
    /\ poDataset = "null"
    /\ poOutDataset = "null"
    /\ bCreateSupported = FALSE
    /\ x = 0
    /\ y = 0
    /\ bandIndex = 0
    /\ bandData = <<>>
    /\ blocksCompleted = 0
    /\ taskState = "none"
    /\ written = {}
    /\ callbacks = 0
    /\ events = <<>>
    /\ HostStarted

\* ------------------------------------------------------------ host thread
\* Worker::requestInterruption.  The flag is a std::atomic<bool>: the store
\* and the loads are single steps, and a load that follows the store in the
\* interleaving sees it.  The record keeps where the worker thread was and
\* how many tiles the destination held when the flag was first set.
requestInterruption ==
    /\ isConverting' = FALSE
    /\ events' = IF isConverting
                 THEN Append(events, Ev("requestInterruption", TRUE, pc,
                                        <<Cardinality(WrittenTiles),
                                          bandIndex>>))
                 ELSE events
    /\ UNCHANGED <<hostVars, pc, jobVars, gdal, srcVars, poDataset, poOutDataset,
                   bCreateSupported, loopVars, callbacks>>

\* ------------------------------------------------------------ Worker::process
\* faulty variant of OpenInput: no return after the open failure
OpenInput_NoReturn ==
    /\ pc = "start"
    /\ \E opens \in BOOLEAN : gdal' = [gdal EXCEPT !.srcOpens = opens]
    /\ IF gdal'.srcOpens
       THEN /\ poDataset' = "open"
            /\ events' = events \o <<Log("Starting GDAL conversion..."),
                                     Ev("GDALOpenEx", TRUE, "", <<>>),
                                     Log("Input file opened successfully.")>>
       ELSE /\ poDataset' = "null"
            /\ events' = events \o <<Log("Starting GDAL conversion..."),
                                     Ev("GDALOpenEx", FALSE, "", <<>>),
                                     Finished(FALSE, MsgOpenFailed)>>
    /\ pc' = "driver"
    /\ UNCHANGED <<hostVars, isConverting, jobVars, srcVars, poOutDataset,
                   bCreateSupported, loopVars, callbacks>>

\* process(): log, GDALOpenEx, and the open-failure exit
OpenInput ==
    /\ pc = "start"
    /\ \E opens \in BOOLEAN : gdal' = [gdal EXCEPT !.srcOpens = opens]
    /\ IF gdal'.srcOpens
       THEN /\ poDataset' = "open"
            /\ events' = events \o <<Log("Starting GDAL conversion..."),
                                     Ev("GDALOpenEx", TRUE, "", <<>>),
                                     Log("Input file opened successfully.")>>
            /\ pc' = "driver"
       ELSE /\ poDataset' = "null"
            /\ events' = events \o <<Log("Starting GDAL conversion..."),
                                     Ev("GDALOpenEx", FALSE, "", <<>>),
                                     Finished(FALSE, MsgOpenFailed)>>
            /\ pc' = "done"
    /\ UNCHANGED <<hostVars, isConverting, jobVars, srcVars, poOutDataset, bCreateSupported,
                   loopVars, callbacks>>

\* faulty variant of GetOutputDriver: no return after the driver was not
\* found
GetOutputDriver_NoReturn ==
    /\ pc = "driver"
    /\ \E found, create, copy \in BOOLEAN :
         gdal' = [gdal EXCEPT !.driverExists = found,
                              !.capCreate = found /\ create,
                              !.capCreateCopy = found /\ copy]
    /\ IF gdal'.driverExists
       THEN /\ events' = events \o <<Ev("GetDriverByName", TRUE, "", <<>>),
                                     Log("Output driver found")>>
            /\ poDataset' = poDataset
       ELSE /\ events' = events \o <<Ev("GetDriverByName", FALSE, "", <<>>),
                                     Close("source"),
                                     Finished(FALSE, MsgDriverUnavailable)>>
            /\ poDataset' = "closed"
    /\ pc' = "options"
    /\ UNCHANGED <<hostVars, isConverting, jobVars, srcVars, poOutDataset, bCreateSupported,
                   loopVars, callbacks>>

\* process(): GetDriverByName and the driver-unavailable exit
GetOutputDriver ==
    /\ pc = "driver"
    /\ \E found, create, copy \in BOOLEAN :
         gdal' = [gdal EXCEPT !.driverExists = found,
                              !.capCreate = found /\ create,
                              !.capCreateCopy = found /\ copy]
    /\ IF gdal'.driverExists
       THEN /\ events' = events \o <<Ev("GetDriverByName", TRUE, "", <<>>),
                                     Log("Output driver found")>>
            /\ poDataset' = poDataset
            /\ pc' = "options"
       ELSE /\ events' = events \o <<Ev("GetDriverByName", FALSE, "", <<>>),
                                     Close("source"),
                                     Finished(FALSE, MsgDriverUnavailable)>>
            /\ poDataset' = "closed"
            /\ pc' = "done"
    /\ UNCHANGED <<hostVars, isConverting, jobVars, srcVars, poOutDataset, bCreateSupported,
                   loopVars, callbacks>>

\* process(): the creation-option loop and the GDAL_DCAP_CREATE query
SetOptions ==
    /\ pc = "options"
    /\ events' = events \o OptionEvents(nOptions)
                        \o <<Ev("GetMetadataItem", gdal.capCreate,
                                "DCAP_CREATE", <<>>)>>
    /\ bCreateSupported' = gdal.capCreate
    /\ pc' = "mode"
    /\ UNCHANGED <<hostVars, isConverting, jobVars, gdal, srcVars, poDataset, poOutDataset, loopVars,
                   callbacks>>

\* process(): the CPU branch up to the choice of strategy
\* faulty variant of ProcessCPU: CreateCopy is preferred over Create
ProcessCPU_CopyFirst ==
    /\ pc = "mode"
    /\ processingMode = "CPU"
    /\ IF gdal.capCreateCopy
       THEN /\ events' = events \o <<Log("Processing mode: CPU"),
                                     Ev("GetMetadataItem", TRUE,
                                        "DCAP_CREATECOPY", <<>>)>>
            /\ poDataset' = poDataset
            /\ pc' = "copy"
       ELSE IF bCreateSupported
       THEN /\ events' = events \o <<Log("Processing mode: CPU"),
                                     Ev("GetMetadataItem", FALSE,
                                        "DCAP_CREATECOPY", <<>>)>>
            /\ poDataset' = poDataset
            /\ pc' = "create"
       ELSE /\ events' = events \o <<Log("Processing mode: CPU"),
                                     Ev("GetMetadataItem", FALSE,
                                        "DCAP_CREATECOPY", <<>>),
                                     Close("source"),
                                     Finished(FALSE, MsgUnsupported)>>
            /\ poDataset' = "closed"
            /\ pc' = "done"
    /\ UNCHANGED <<hostVars, isConverting, jobVars, gdal, srcVars, poOutDataset, bCreateSupported,
                   loopVars, callbacks>>

ProcessCPU ==
    /\ pc = "mode"
    /\ processingMode = "CPU"
    /\ IF bCreateSupported
       THEN /\ events' = Append(events, Log("Processing mode: CPU"))
            /\ poDataset' = poDataset
            /\ pc' = "create"
       ELSE IF gdal.capCreateCopy
       THEN /\ events' = events \o <<Log("Processing mode: CPU"),
                                     Ev("GetMetadataItem", TRUE,
                                        "DCAP_CREATECOPY", <<>>)>>
            /\ poDataset' = poDataset
            /\ pc' = "copy"
       ELSE /\ events' = events \o <<Log("Processing mode: CPU"),
                                     Ev("GetMetadataItem", FALSE,
                                        "DCAP_CREATECOPY", <<>>),
                                     Close("source"),
                                     Finished(FALSE, MsgUnsupported)>>
            /\ poDataset' = "closed"
            /\ pc' = "done"
    /\ UNCHANGED <<hostVars, isConverting, jobVars, gdal, srcVars, poOutDataset, bCreateSupported,
                   loopVars, callbacks>>

\* faulty variant of ProcessGPU: the GPU mode is run as a CPU job
ProcessGPU_RunsAsCPU ==
    /\ pc = "mode"
    /\ processingMode = "GPU"
    /\ events' = Append(events, Log("Processing mode: GPU"))
    /\ poDataset' = poDataset
    /\ pc' = "create"
    /\ UNCHANGED <<hostVars, isConverting, jobVars, gdal, srcVars, poOutDataset,
                   bCreateSupported, loopVars, callbacks>>

\* process(): the GPU branch
ProcessGPU ==
    /\ pc = "mode"
    /\ processingMode = "GPU"
    /\ events' = events \o <<Log("Processing mode: GPU"),
                             Close("source"),
                             Log(MsgGPU),
                             Finished(FALSE, MsgGPU)>>
    /\ poDataset' = "closed"
    /\ pc' = "done"
    /\ UNCHANGED <<hostVars, isConverting, jobVars, gdal, srcVars, poOutDataset, bCreateSupported,
                   loopVars, callbacks>>

\* -------------------------------------- Worker::processWithCreateMethod
\* poDataset->GetRasterCount() returning n
GetRasterCount(n) == Ev("GetRasterCount", TRUE, "", <<n>>)

\* poDataset->GetRasterBand(b)->GetRasterDataType()
GetRasterDataType(b) == Ev("GetRasterBand", TRUE, "GetRasterDataType", <<b>>)

\* faulty variant of CreateOutput: the pixel type of the first band is
\* asked for before the band count is looked at
CreateOutput_TypeFirst ==
    /\ pc = "create"
    /\ nBands' \in BandCounts
    /\ IF nBands' = 0 THEN nXSize' = nXSize /\ nYSize' = nYSize
                      ELSE nXSize' \in Widths /\ nYSize' \in Heights
    /\ IF nBands' = 0
       THEN /\ events' = events \o <<Log("Using Create method."),
                                     GetRasterDataType(1),
                                     GetRasterCount(0),
                                     Finished(FALSE, MsgNoBands)>>
            /\ poOutDataset' = poOutDataset
            /\ pc' = "returned_false"
       ELSE \E ok \in BOOLEAN :
            IF ok
            THEN /\ events' = events \o <<Log("Using Create method."),
                                          GetRasterCount(nBands'),
                                          GetRasterDataType(1),
                                          Ev("Create", TRUE, "",
                                             <<nXSize', nYSize', nBands'>>)>>
                 /\ poOutDataset' = "open"
                 /\ pc' = "processData"
            ELSE /\ events' = events \o <<Log("Using Create method."),
                                          GetRasterCount(nBands'),
                                          GetRasterDataType(1),
                                          Ev("Create", FALSE, "",
                                             <<nXSize', nYSize', nBands'>>),
                                          Finished(FALSE, MsgCreateFailed)>>
                 /\ poOutDataset' = poOutDataset
                 /\ pc' = "returned_false"
    /\ UNCHANGED <<hostVars, isConverting, jobVars, gdal, poDataset, bCreateSupported,
                   loopVars, callbacks>>

\* processWithCreateMethod(): band-count check, pixel type of the first
\* band, Create, metadata copy
CreateOutput ==
    /\ pc = "create"
    /\ nBands' \in BandCounts
    /\ IF nBands' = 0 THEN nXSize' = nXSize /\ nYSize' = nYSize
                      ELSE nXSize' \in Widths /\ nYSize' \in Heights
    /\ IF nBands' = 0
       THEN /\ events' = events \o <<Log("Using Create method."),
                                     GetRasterCount(0),
                                     Finished(FALSE, MsgNoBands)>>
            /\ poOutDataset' = poOutDataset
            /\ pc' = "returned_false"
       ELSE \E ok \in BOOLEAN :
            IF ok
            THEN /\ events' = events \o <<Log("Using Create method."),
                                          GetRasterCount(nBands'),
                                          GetRasterDataType(1),
                                          Ev("Create", TRUE, "",
                                             <<nXSize', nYSize', nBands'>>)>>
                 /\ poOutDataset' = "open"
                 /\ pc' = "processData"
            ELSE /\ events' = events \o <<Log("Using Create method."),
                                          GetRasterCount(nBands'),
                                          GetRasterDataType(1),
                                          Ev("Create", FALSE, "",
                                             <<nXSize', nYSize', nBands'>>),
                                          Finished(FALSE, MsgCreateFailed)>>
                 /\ poOutDataset' = poOutDataset
                 /\ pc' = "returned_false"
    /\ UNCHANGED <<hostVars, isConverting, jobVars, gdal, poDataset, bCreateSupported,
                   loopVars, callbacks>>

\* faulty variant of ReturnFalse: process() reports the failure again
ReturnFalse_EmitsAgain ==
    /\ pc = "returned_false"
    /\ events' = events \o <<Close("source"),
                             Finished(FALSE, "Conversion failed.")>>
    /\ poDataset' = "closed"
    /\ pc' = "done"
    /\ UNCHANGED <<hostVars, isConverting, jobVars, gdal, srcVars, poOutDataset,
                   bCreateSupported, loopVars, callbacks>>

\* process(): a strategy returned false before a destination existed, or
\* after it was closed; the source is closed and process() returns
ReturnFalse ==
    /\ pc = "returned_false"
    /\ events' = Append(events, Close("source"))
    /\ poDataset' = "closed"
    /\ pc' = "done"
    /\ UNCHANGED <<hostVars, isConverting, jobVars, gdal, srcVars, poOutDataset, bCreateSupported,
                   loopVars, callbacks>>

\* faulty variant of BeginProcessData: the set-up sets the flag again
BeginProcessData_ResetsFlag ==
    /\ pc = "processData"
    /\ blocksCompleted' = 0
    /\ y' = 0
    /\ isConverting' = TRUE
    /\ events' = Append(events, Log("Starting block processing"))
    /\ pc' = "outer"
    /\ UNCHANGED <<hostVars, jobVars, gdal, srcVars, poDataset, poOutDataset,
                   bCreateSupported, x, bandIndex, bandData, taskState,
                   written, callbacks>>

\* ------------------------------------------------- Worker::processData
\* processData(): set-up before the loops
BeginProcessData ==
    /\ pc = "processData"
    /\ blocksCompleted' = 0
    /\ y' = 0
    /\ events' = Append(events, Log("Starting block processing"))
    /\ pc' = "outer"
    /\ UNCHANGED <<hostVars, isConverting, jobVars, gdal, srcVars, poDataset, poOutDataset,
                   bCreateSupported, x, bandIndex, bandData, taskState,
                   written, callbacks>>

\* faulty variant of OuterGuard: x is not reset when a row is entered
OuterGuard_KeepsX ==
    /\ pc = "outer"
    /\ IF y < nYSize
       THEN /\ events' = Append(events, Load("outer", isConverting))
            /\ IF isConverting
               THEN x' = x /\ pc' = "inner"
               ELSE x' = x /\ pc' = "post"
       ELSE /\ events' = events
            /\ x' = x
            /\ pc' = "post"
    /\ UNCHANGED <<hostVars, isConverting, jobVars, gdal, srcVars, poDataset, poOutDataset,
                   bCreateSupported, y, bandIndex, bandData, blocksCompleted,
                   taskState, written, callbacks>>

\* for (y ...; y < nYSize && isConverting.load(); ...)
OuterGuard ==
    /\ pc = "outer"
    /\ IF y < nYSize
       THEN /\ events' = Append(events, Load("outer", isConverting))
            /\ IF isConverting
               THEN x' = 0 /\ pc' = "inner"
               ELSE x' = x /\ pc' = "post"
       ELSE /\ events' = events
            /\ x' = x
            /\ pc' = "post"
    /\ UNCHANGED <<hostVars, isConverting, jobVars, gdal, srcVars, poDataset, poOutDataset,
                   bCreateSupported, y, bandIndex, bandData, blocksCompleted,
                   taskState, written, callbacks>>

\* faulty variant of InnerGuard: the column loop runs while x <= nXSize
InnerGuard_Inclusive ==
    /\ pc = "inner"
    /\ IF x <= nXSize
       THEN /\ events' = Append(events, Load("inner", isConverting))
            /\ IF isConverting
               THEN /\ bandIndex' = 1
                    /\ bandData' = <<>>
                    /\ y' = y
                    /\ pc' = "read"
               ELSE /\ bandIndex' = bandIndex
                    /\ bandData' = bandData
                    /\ y' = y + blockSizeY
                    /\ pc' = "outer"
       ELSE /\ events' = events
            /\ bandIndex' = bandIndex
            /\ bandData' = bandData
            /\ y' = y + blockSizeY
            /\ pc' = "outer"
    /\ UNCHANGED <<hostVars, isConverting, jobVars, gdal, srcVars, poDataset, poOutDataset,
                   bCreateSupported, x, blocksCompleted, taskState, written,
                   callbacks>>

\* for (x ...; x < nXSize && isConverting.load(); ...), and y += blockSizeY
\* when the row is left
InnerGuard ==
    /\ pc = "inner"
    /\ IF x < nXSize
       THEN /\ events' = Append(events, Load("inner", isConverting))
            /\ IF isConverting
               THEN /\ bandIndex' = 1
                    /\ bandData' = <<>>
                    /\ y' = y
                    /\ pc' = "read"
               ELSE /\ bandIndex' = bandIndex
                    /\ bandData' = bandData
                    /\ y' = y + blockSizeY
                    /\ pc' = "outer"
       ELSE /\ events' = events
            /\ bandIndex' = bandIndex
            /\ bandData' = bandData
            /\ y' = y + blockSizeY
            /\ pc' = "outer"
    /\ UNCHANGED <<hostVars, isConverting, jobVars, gdal, srcVars, poDataset, poOutDataset,
                   bCreateSupported, x, blocksCompleted, taskState, written,
                   callbacks>>

\* faulty variant of ReadBand: the CPLErr of the read is ignored
ReadBand_IgnoresError ==
    /\ pc = "read"
    /\ bandIndex <= nBands
    /\ \E ok \in BOOLEAN :
         /\ events' = Append(events, Ev("RasterIO", ok, "GF_Read",
                                        <<bandIndex>> \o Tile))
         /\ bandData' = Append(bandData, <<bandIndex>> \o Tile)
         /\ bandIndex' = bandIndex + 1
         /\ pc' = "read"
    /\ UNCHANGED <<hostVars, isConverting, jobVars, gdal, srcVars, poDataset, poOutDataset,
                   bCreateSupported, x, y, blocksCompleted, taskState,
                   written, callbacks>>

\* one pass of the band read loop: RasterIO(GF_Read) of band bandIndex
ReadBand ==
    /\ pc = "read"
    /\ bandIndex <= nBands
    /\ \E ok \in BOOLEAN :
         IF ok
         THEN /\ events' = Append(events, Ev("RasterIO", TRUE, "GF_Read",
                                             <<bandIndex>> \o Tile))
              /\ bandData' = Append(bandData, <<bandIndex>> \o Tile)
              /\ bandIndex' = bandIndex + 1
              /\ pc' = "read"
         ELSE /\ events' = events \o <<Ev("RasterIO", FALSE, "GF_Read",
                                          <<bandIndex>> \o Tile),
                                       Finished(FALSE, MsgReadFailed)>>
              /\ bandData' = bandData
              /\ bandIndex' = bandIndex
              /\ pc' = "data_failed"
    /\ UNCHANGED <<hostVars, isConverting, jobVars, gdal, srcVars, poDataset, poOutDataset,
                   bCreateSupported, x, y, blocksCompleted, taskState,
                   written, callbacks>>

\* new BlockProcessor(bandData, ...); threadPool.start(task)
StartTask ==
    /\ pc = "read"
    /\ bandIndex > nBands
    /\ taskState' = "queued"
    /\ events' = Append(events, Ev("threadPool.start", TRUE, "", Tile))
    /\ pc' = "precheck"
    /\ UNCHANGED <<hostVars, isConverting, jobVars, gdal, srcVars, poDataset, poOutDataset,
                   bCreateSupported, x, y, bandIndex, bandData,
                   blocksCompleted, written, callbacks>>

\* faulty variant of BlockProcessorRun: the task does not return once the
\* flag is cleared
BlockProcessorRun_BlocksOnCancel ==
    /\ taskState = "queued"
    /\ isConverting
    /\ taskState' = "done"
    /\ events' = Append(events, Ev("BlockProcessor.run", isConverting, "", Tile))
    /\ UNCHANGED <<hostVars, pc, isConverting, jobVars, gdal, srcVars, poDataset, poOutDataset,
                   bCreateSupported, x, y, bandIndex, bandData,
                   blocksCompleted, written, callbacks>>

\* BlockProcessor::run on a pool thread: it loads the flag and returns,
\* leaving the buffers as they are
BlockProcessorRun ==
    /\ taskState = "queued"
    /\ taskState' = "done"
    /\ events' = Append(events, Ev("BlockProcessor.run", isConverting, "", Tile))
    /\ UNCHANGED <<hostVars, pc, isConverting, jobVars, gdal, srcVars, poDataset, poOutDataset,
                   bCreateSupported, x, y, bandIndex, bandData,
                   blocksCompleted, written, callbacks>>

\* faulty variant of PreWriteCheck: the flag is loaded but the tile is
\* written whatever its value
PreWriteCheck_Ignored ==
    /\ pc = "precheck"
    /\ events' = Append(events, Load("prewrite", isConverting))
    /\ pc' = "wait"
    /\ UNCHANGED <<hostVars, isConverting, jobVars, gdal, srcVars, poDataset, poOutDataset,
                   bCreateSupported, loopVars, callbacks>>

\* if (!isConverting.load()) after the task was started
PreWriteCheck ==
    /\ pc = "precheck"
    /\ events' = Append(events, Load("prewrite", isConverting))
    /\ pc' = IF isConverting THEN "wait" ELSE "cancel_wait"
    /\ UNCHANGED <<hostVars, isConverting, jobVars, gdal, srcVars, poDataset, poOutDataset,
                   bCreateSupported, loopVars, callbacks>>

\* faulty variant of CancelBeforeWrite: the cancellation return does not
\* wait for the pool
CancelBeforeWrite_NoWait ==
    /\ pc = "cancel_wait"
    /\ taskState' = taskState
    /\ events' = Append(events, Finished(FALSE, MsgCancelled))
    /\ pc' = "data_failed"
    /\ UNCHANGED <<hostVars, isConverting, jobVars, gdal, srcVars, poDataset, poOutDataset,
                   bCreateSupported, x, y, bandIndex, bandData,
                   blocksCompleted, written, callbacks>>

\* cancelled before the write: waitForDone, finished(false, cancelled)
CancelBeforeWrite ==
    /\ pc = "cancel_wait"
    /\ taskState = "done"
    /\ taskState' = "none"
    /\ events' = events \o <<Ev("waitForDone", TRUE, "", <<>>),
                             Finished(FALSE, MsgCancelled)>>
    /\ pc' = "data_failed"
    /\ UNCHANGED <<hostVars, isConverting, jobVars, gdal, srcVars, poDataset, poOutDataset,
                   bCreateSupported, x, y, bandIndex, bandData,
                   blocksCompleted, written, callbacks>>

\* faulty variant of WaitForDone: the write loop is entered without waiting
\* for the pool
WaitForDone_NoBarrier ==
    /\ pc = "wait"
    /\ taskState' = taskState
    /\ bandIndex' = 1
    /\ events' = events
    /\ pc' = "write"
    /\ UNCHANGED <<hostVars, isConverting, jobVars, gdal, srcVars, poDataset, poOutDataset,
                   bCreateSupported, x, y, bandData, blocksCompleted,
                   written, callbacks>>

\* faulty variant of WaitForDone: the tile is counted when its task has
\* returned, before it is written
WaitForDone_CountsEarly ==
    /\ pc = "wait"
    /\ taskState = "done"
    /\ taskState' = "none"
    /\ bandIndex' = 1
    /\ blocksCompleted' = blocksCompleted + 1
    /\ events' = Append(events, Ev("waitForDone", TRUE, "", <<>>))
    /\ pc' = "write"
    /\ UNCHANGED <<hostVars, isConverting, jobVars, gdal, srcVars, poDataset, poOutDataset,
                   bCreateSupported, x, y, bandData, written, callbacks>>

\* threadPool.waitForDone() before the write loop
WaitForDone ==
    /\ pc = "wait"
    /\ taskState = "done"
    /\ taskState' = "none"
    /\ bandIndex' = 1
    /\ events' = Append(events, Ev("waitForDone", TRUE, "", <<>>))
    /\ pc' = "write"
    /\ UNCHANGED <<hostVars, isConverting, jobVars, gdal, srcVars, poDataset, poOutDataset,
                   bCreateSupported, x, y, bandData, blocksCompleted,
                   written, callbacks>>

\* faulty variant of WriteBand: the CPLErr of the write is ignored
WriteBand_IgnoresError ==
    /\ pc = "write"
    /\ bandIndex <= nBands
    /\ \E ok \in BOOLEAN :
         /\ events' = Append(events, Ev("RasterIO", ok, "GF_Write",
                                        <<bandIndex>> \o Tile))
         /\ written' = IF ok
                       THEN written \cup
                              {[band |-> bandIndex, window |-> Tile,
                                data |-> bandData[bandIndex]]}
                       ELSE written
    /\ bandIndex' = bandIndex + 1
    /\ pc' = "write"
    /\ UNCHANGED <<hostVars, isConverting, jobVars, gdal, srcVars, poDataset,
                   poOutDataset, bCreateSupported, x, y, bandData,
                   blocksCompleted, taskState, callbacks>>

\* faulty variant of WriteBand: every band is written from the first band's
\* buffer
WriteBand_FirstBuffer ==
    /\ pc = "write"
    /\ bandIndex <= nBands
    /\ \E ok \in BOOLEAN :
         IF ok
         THEN /\ events' = Append(events, Ev("RasterIO", TRUE, "GF_Write",
                                             <<bandIndex>> \o Tile))
              /\ written' = written \cup
                     {[band |-> bandIndex, window |-> Tile,
                       data |-> bandData[1]]}
              /\ bandIndex' = bandIndex + 1
              /\ pc' = "write"
         ELSE /\ events' = events \o <<Ev("RasterIO", FALSE, "GF_Write",
                                          <<bandIndex>> \o Tile),
                                       Finished(FALSE, MsgWriteFailed)>>
              /\ written' = written
              /\ bandIndex' = bandIndex
              /\ pc' = "data_failed"
    /\ UNCHANGED <<hostVars, isConverting, jobVars, gdal, srcVars, poDataset, poOutDataset,
                   bCreateSupported, x, y, bandData, blocksCompleted,
                   taskState, callbacks>>

\* one pass of the band write loop: RasterIO(GF_Write) of band bandIndex
WriteBand ==
    /\ pc = "write"
    /\ bandIndex <= nBands
    /\ \E ok \in BOOLEAN :
         IF ok
         THEN /\ events' = Append(events, Ev("RasterIO", TRUE, "GF_Write",
                                             <<bandIndex>> \o Tile))
              /\ written' = written \cup
                     {[band |-> bandIndex, window |-> Tile,
                       data |-> bandData[bandIndex]]}
              /\ bandIndex' = bandIndex + 1
              /\ pc' = "write"
         ELSE /\ events' = events \o <<Ev("RasterIO", FALSE, "GF_Write",
                                          <<bandIndex>> \o Tile),
                                       Finished(FALSE, MsgWriteFailed)>>
              /\ written' = written
              /\ bandIndex' = bandIndex
              /\ pc' = "data_failed"
    /\ UNCHANGED <<hostVars, isConverting, jobVars, gdal, srcVars, poDataset, poOutDataset,
                   bCreateSupported, x, y, bandData, blocksCompleted,
                   taskState, callbacks>>

\* faulty variant of UpdateProgress: the fraction is computed before the
\* counter is incremented
UpdateProgress_OffByOne ==
    /\ pc = "write"
    /\ bandIndex > nBands
    /\ blocksCompleted' = blocksCompleted + 1
    /\ events' = Append(events,
                        Progress(Frac(blocksCompleted, totalBlocks)))
    /\ x' = x + blockSizeX
    /\ pc' = "inner"
    /\ UNCHANGED <<hostVars, isConverting, jobVars, gdal, srcVars, poDataset,
                   poOutDataset, bCreateSupported, y, bandIndex, bandData,
                   taskState, written, callbacks>>

\* blocksCompleted.fetch_add(1); emit progressUpdated(completed/total);
\* x += blockSizeX
UpdateProgress ==
    /\ pc = "write"
    /\ bandIndex > nBands
    /\ blocksCompleted' = blocksCompleted + 1
    /\ events' = Append(events,
                        Progress(Frac(blocksCompleted + 1, totalBlocks)))
    /\ x' = x + blockSizeX
    /\ pc' = "inner"
    /\ UNCHANGED <<hostVars, isConverting, jobVars, gdal, srcVars, poDataset, poOutDataset,
                   bCreateSupported, y, bandIndex, bandData, taskState,
                   written, callbacks>>

\* faulty variant of PostLoop: the flag is not checked after the loops
PostLoop_NoCheck ==
    /\ pc = "post"
    /\ events' = Append(events, Progress(<<1, 1>>))
    /\ pc' = "data_ok"
    /\ UNCHANGED <<hostVars, isConverting, jobVars, gdal, srcVars, poDataset,
                   poOutDataset, bCreateSupported, loopVars, callbacks>>

\* after the loops: the last cancellation check, then the final update
PostLoop ==
    /\ pc = "post"
    /\ IF isConverting
       THEN /\ events' = events \o <<Load("post", TRUE), Progress(<<1, 1>>)>>
            /\ pc' = "data_ok"
       ELSE /\ events' = events \o <<Load("post", FALSE),
                                     Finished(FALSE, MsgCancelled)>>
            /\ pc' = "data_failed"
    /\ UNCHANGED <<hostVars, isConverting, jobVars, gdal, srcVars, poDataset, poOutDataset,
                   bCreateSupported, loopVars, callbacks>>

\* faulty variant of DataFailed: the destination is left open when
\* processData() returned false
DataFailed_LeaksDestination ==
    /\ pc = "data_failed"
    /\ events' = Append(events, Close("source"))
    /\ poOutDataset' = poOutDataset
    /\ poDataset' = "closed"
    /\ pc' = "done"
    /\ UNCHANGED <<hostVars, isConverting, jobVars, gdal, srcVars, bCreateSupported, loopVars,
                   callbacks>>

\* faulty variant of DataFailed: the tiles written so far are discarded when
\* processData() returned false
DataFailed_Rollback ==
    /\ pc = "data_failed"
    /\ events' = events \o <<Close("destination"), Close("source")>>
    /\ written' = {}
    /\ poOutDataset' = "closed"
    /\ poDataset' = "closed"
    /\ pc' = "done"
    /\ UNCHANGED <<hostVars, isConverting, jobVars, gdal, srcVars, bCreateSupported,
                   x, y, bandIndex, bandData, blocksCompleted, taskState,
                   callbacks>>

\* processData() returned false: processWithCreateMethod closes the
\* destination, process() closes the source
DataFailed ==
    /\ pc = "data_failed"
    /\ events' = events \o <<Close("destination"), Close("source")>>
    /\ poOutDataset' = "closed"
    /\ poDataset' = "closed"
    /\ pc' = "done"
    /\ UNCHANGED <<hostVars, isConverting, jobVars, gdal, srcVars, bCreateSupported, loopVars,
                   callbacks>>

\* a strategy returned true: the destination was closed by the strategy,
\* process() closes the source and reports success
Succeed ==
    /\ pc \in {"data_ok", "copy_ok"}
    /\ events' = events \o <<Close("destination"), Close("source"),
                             Log("Conversion process completed successfully."),
                             Finished(TRUE, MsgSuccess)>>
    /\ poOutDataset' = "closed"
    /\ poDataset' = "closed"
    /\ pc' = "done"
    /\ UNCHANGED <<hostVars, isConverting, jobVars, gdal, srcVars, bCreateSupported, loopVars,
                   callbacks>>

\* ---------------------------------- Worker::processWithCreateCopyMethod
\* processWithCreateCopyMethod(): the call of CreateCopy
BeginCreateCopy ==
    /\ pc = "copy"
    /\ events' = events \o <<Log("Using CreateCopy method."),
                             Ev("CreateCopy", TRUE, "call", <<>>)>>
    /\ pc' = "copying"
    /\ UNCHANGED <<hostVars, isConverting, jobVars, gdal, srcVars, poDataset, poOutDataset,
                   bCreateSupported, loopVars, callbacks>>

\* faulty variant of progressCallback: the fraction is forwarded before the
\* flag is looked at
progressCallback_EmitsOnAbort ==
    /\ pc = "copying"
    /\ callbacks < MaxCallbacks
    /\ callbacks' = callbacks + 1
    /\ \E v \in CopyFractions :
         IF isConverting
         THEN /\ events' = events \o <<Load("callback", TRUE), Progress(v)>>
              /\ pc' = "copying"
         ELSE /\ events' = events \o <<Load("callback", FALSE), Progress(v),
                                       Ev("CreateCopy", FALSE, "aborted", <<>>)>>
              /\ pc' = "copy_null"
    /\ UNCHANGED <<hostVars, isConverting, jobVars, gdal, srcVars, poDataset, poOutDataset,
                   bCreateSupported, loopVars>>

\* Worker::progressCallback, called by the driver with dfComplete = v: a
\* FALSE return makes the driver give up and CreateCopy return NULL
progressCallback ==
    /\ pc = "copying"
    /\ callbacks < MaxCallbacks
    /\ callbacks' = callbacks + 1
    /\ \E v \in CopyFractions :
         IF isConverting
         THEN /\ events' = events \o <<Load("callback", TRUE), Progress(v)>>
              /\ pc' = "copying"
         ELSE /\ events' = events \o <<Load("callback", FALSE),
                                       Ev("CreateCopy", FALSE, "aborted", <<>>)>>
              /\ pc' = "copy_null"
    /\ UNCHANGED <<hostVars, isConverting, jobVars, gdal, srcVars, poDataset, poOutDataset,
                   bCreateSupported, loopVars>>

\* CreateCopy returns on its own: a dataset, or NULL on a driver failure
CreateCopyReturns ==
    /\ pc = "copying"
    /\ \E ok \in BOOLEAN :
         IF ok
         THEN /\ events' = Append(events, Ev("CreateCopy", TRUE, "returned", <<>>))
              /\ poOutDataset' = "open"
              /\ pc' = "copy_ok"
         ELSE /\ events' = Append(events, Ev("CreateCopy", FALSE, "failed", <<>>))
              /\ poOutDataset' = poOutDataset
              /\ pc' = "copy_null"
    /\ UNCHANGED <<hostVars, isConverting, jobVars, gdal, srcVars, poDataset, bCreateSupported,
                   loopVars, callbacks>>

\* if (!poOutDataset): finished(false, CreateCopy failure), return false
CreateCopyFailed ==
    /\ pc = "copy_null"
    /\ events' = Append(events, Finished(FALSE, MsgCreateCopyFailed))
    /\ pc' = "returned_false"
    /\ UNCHANGED <<hostVars, isConverting, jobVars, gdal, srcVars, poDataset, poOutDataset,
                   bCreateSupported, loopVars, callbacks>>

\* ------------------------------------------------------------ specification
Next ==
    \/ requestInterruption
    \/ OpenInput
    \/ GetOutputDriver
    \/ SetOptions
    \/ ProcessCPU
    \/ ProcessGPU
    \/ CreateOutput
    \/ ReturnFalse
    \/ BeginProcessData
    \/ OuterGuard
    \/ InnerGuard
    \/ ReadBand
    \/ StartTask
    \/ BlockProcessorRun
    \/ PreWriteCheck
    \/ CancelBeforeWrite
    \/ WaitForDone
    \/ WriteBand
    \/ UpdateProgress
    \/ PostLoop
    \/ DataFailed
    \/ Succeed
    \/ BeginCreateCopy
    \/ progressCallback
    \/ CreateCopyReturns
    \/ CreateCopyFailed

Spec == Init /\ [][Next]_vars

\* ------------------------------------------------ reading the record
SignalOps == {"logMessage", "progressUpdated", "finished"}

\* positions of the finished signals, and the terminal signal
FinishedAt == {i \in DOMAIN events : events[i].op = "finished"}
HasFinished == FinishedAt # {}
Terminal == events[CHOOSE i \in FinishedAt : TRUE]
TerminalIs(ok, msg) == HasFinished /\ Terminal = Finished(ok, msg)

\* the progressUpdated values, in order of emission
ProgressValues ==
    LET p == SelectSeq(events, LAMBDA e : e.op = "progressUpdated")
    IN [i \in DOMAIN p |-> p[i].val]

Did(op) == \E i \in DOMAIN events : events[i].op = op
DidMsg(op, msg) ==
    \E i \in DOMAIN events : events[i].op = op /\ events[i].msg = msg

\* the strategy the job took
TookCreate == DidMsg("logMessage", "Using Create method.")
TookCreateCopy == DidMsg("logMessage", "Using CreateCopy method.")
EnteredTileLoop == DidMsg("logMessage", "Starting block processing")

\* the first (and only recorded) requestInterruption
CancelAt == {i \in DOMAIN events : events[i].op = "requestInterruption"}
Cancelled == CancelAt # {}
CancelEv == events[CHOOSE i \in CancelAt : TRUE]

\* the orchestration thread or the callback saw the flag set
ObservedCancel ==
    \E i \in DOMAIN events : events[i].op = "load" /\ ~events[i].ok

\* no GDAL call failed
FailureFree ==
    \A i \in DOMAIN events :
        events[i].op \in {"GDALOpenEx", "GetDriverByName", "Create",
                          "CreateCopy", "RasterIO"} => events[i].ok

\* the tiles the loop has visited, in order (one task is started per tile)
VisitedSeq ==
    LET p == SelectSeq(events, LAMBDA e : e.op = "threadPool.start")
    IN [i \in DOMAIN p |-> p[i].val]
Visited == {VisitedSeq[i] : i \in DOMAIN VisitedSeq}

Area(t) == t[3] * t[4]
Overlap(s, t) ==
    /\ s[1] < t[1] + t[3] /\ t[1] < s[1] + s[3]
    /\ s[2] < t[2] + t[4] /\ t[2] < s[2] + s[4]
Inside(t) ==
    /\ 0 <= t[1] /\ 0 <= t[2] /\ t[3] >= 1 /\ t[4] >= 1
    /\ t[1] + t[3] <= nXSize /\ t[2] + t[4] <= nYSize

RECURSIVE SumArea(_)
SumArea(S) ==
    IF S = {} THEN 0
    ELSE LET t == CHOOSE t \in S : TRUE IN Area(t) + SumArea(S \ {t})

\* ------------------------------------------------------------ claims

\* C1: every run of Worker::process emits exactly one finished signal (never
\* more than one, and one once process has returned), and the Worker emits
\* no progressUpdated or logMessage signal after it.
C1_OneTerminalSignal ==
    /\ Cardinality(FinishedAt) <= 1
    /\ pc = "done" => Cardinality(FinishedAt) = 1
    /\ \A i \in FinishedAt : \A j \in DOMAIN events :
           j > i => events[j].op \notin SignalOps

\* C1 witness: a job cancelled in the tile loop after at least one tile has
\* returned with its single terminal signal.
C1_Witness ==
    /\ pc = "done"
    /\ TerminalIs(FALSE, MsgCancelled)
    /\ blocksCompleted >= 1
    /\ poOutDataset = "closed"

\* C2: the tiles visited by an uncancelled, failure-free processData loop
\* partition the nXSize x nYSize rectangle: every tile lies inside the
\* extent and no two tiles overlap (in every state of the loop), no tile is
\* visited twice, and once the loop has ended the tile areas add up to
\* nXSize * nYSize, so every pixel lies in exactly one tile.
C2_TilesPartition ==
    \A V \in {Visited} :
        /\ \A t \in V : Inside(t)
        /\ \A s, t \in V : s # t => ~Overlap(s, t)
        /\ Cardinality(V) = Len(VisitedSeq)
        /\ pc = "data_ok" =>
             /\ SumArea(V) = nXSize * nYSize
             /\ Cardinality(V) = totalBlocks

\* C2 witness: the loop has ended over the largest extent, whose last column
\* and last row of tiles are clipped.
C2_Witness ==
    /\ pc = "data_ok"
    /\ nXSize = MaxW /\ nYSize = MaxH
    /\ Cardinality(Visited) >= 6
    /\ \E t \in Visited : t[3] < blockSizeX /\ t[4] < blockSizeY

\* the flag was set at a tile boundary: before the first tile's checks, or
\* after a tile's last band was written and before the next check
CancelAtBoundary ==
    /\ Cancelled
    /\ \/ CancelEv.msg \in {"start", "driver", "options", "mode", "create",
                            "processData", "outer", "inner", "post"}
       \/ CancelEv.msg = "write" /\ CancelEv.val[2] > nBands

\* C3: in the full-control path, a requestInterruption that happens before
\* any tile is processed ends the job with finished(false, cancelled) and no
\* tile written; one that happens after tile k was written and before the
\* next tile's checks ends it with finished(false, cancelled) and exactly k
\* tiles written.
C3_CancelAtTileBoundary ==
    (pc = "done" /\ EnteredTileLoop /\ CancelAtBoundary) =>
        /\ TerminalIs(FALSE, MsgCancelled)
        /\ Cardinality(WrittenTiles) = CancelEv.val[1]
        /\ blocksCompleted = CancelEv.val[1]

\* C3 witness: cancelled after tile k of n, 1 <= k < n, and the job has
\* ended with exactly k tiles written.
C3_Witness ==
    /\ pc = "done" /\ EnteredTileLoop /\ CancelAtBoundary
    /\ CancelEv.val[1] >= 2
    /\ CancelEv.val[1] < totalBlocks
    /\ Cardinality(WrittenTiles) = CancelEv.val[1]

\* C3 witness for the first half: cancelled before any tile.
C3_WitnessNoTile ==
    /\ pc = "done" /\ EnteredTileLoop /\ CancelAtBoundary
    /\ CancelEv.val[1] = 0 /\ totalBlocks >= 2 /\ written = {}

\* the messages of the genuine open, create, read and write errors
ErrorMessages == {MsgOpenFailed, MsgCreateFailed, MsgCreateCopyFailed,
                  MsgReadFailed, MsgWriteFailed}

\* C4: a job that stops because a cancellation check (a tile-boundary check
\* of the full-control path, or the driver-copy progress callback) found the
\* flag set ends with finished(false, cancelled), a message that is none of
\* the open/create/read/write error messages.
C4_CancelIsReportedAsCancel ==
    /\ MsgCancelled \notin ErrorMessages
    /\ (pc = "done" /\ ObservedCancel) => TerminalIs(FALSE, MsgCancelled)

\* the flag was set before the terminal signal was emitted
CancelledBeforeFinished ==
    \E i \in CancelAt : \E j \in FinishedAt : i < j

\* C5 as stated, on the full-control path: finished(true, ...) is emitted
\* only if the flag had not been set before it and all totalBlocks tiles
\* were written.
C5_SuccessImpliesNeverCancelled ==
    (TerminalIs(TRUE, MsgSuccess) /\ TookCreate) =>
        /\ ~CancelledBeforeFinished
        /\ Cardinality(WrittenTiles) = totalBlocks

\* C5 amended: finished(true, ...) is emitted only if no cancellation check
\* of the job found the flag set and the destination is complete: all
\* totalBlocks tiles, covering the whole extent, were written on the
\* full-control path; CreateCopy returned a dataset on the CreateCopy path.
C5_SuccessImpliesCompleteAndUnobserved ==
    TerminalIs(TRUE, MsgSuccess) =>
        /\ ~ObservedCancel
        /\ FailureFree
        /\ TookCreate \/ TookCreateCopy
        /\ TookCreate =>
             /\ Cardinality(WrittenTiles) = totalBlocks
             /\ blocksCompleted = totalBlocks
             /\ SumArea(WrittenTiles) = nXSize * nYSize
        /\ TookCreateCopy => DidMsg("CreateCopy", "returned")

\* C5 witness: success is reported although requestInterruption came before
\* the terminal signal (after the last check), with every tile written.
C5_Witness ==
    /\ TerminalIs(TRUE, MsgSuccess)
    /\ CancelledBeforeFinished
    /\ TookCreate
    /\ totalBlocks >= 2
    /\ Cardinality(WrittenTiles) = totalBlocks

\* C6 as stated: a successful uncancelled full-control job over n >= 1 tiles
\* emits exactly the progress values 1/n, 2/n, ..., n/n.
C6_ProgressIsOneToN ==
    (/\ pc = "done" /\ TookCreate /\ TerminalIs(TRUE, MsgSuccess)
     /\ ~Cancelled /\ totalBlocks >= 1) =>
        ProgressValues = [k \in 1..totalBlocks |-> Frac(k, totalBlocks)]

\* C6 amended: a successful full-control job over n tiles emits exactly the
\* progress values 1/n, 2/n, ..., n/n followed by one final 1.0 (n + 1
\* values; only the final 1.0 when n = 0).
C6_ProgressIsOneToNThenOne ==
    (pc = "done" /\ TookCreate /\ TerminalIs(TRUE, MsgSuccess)) =>
        ProgressValues = [k \in 1..(totalBlocks + 1) |->
                            IF k <= totalBlocks THEN Frac(k, totalBlocks)
                            ELSE <<1, 1>>]

\* C6 witness: the uncancelled job over the largest extent (six tiles) has
\* ended with seven progress values.
C6_Witness ==
    /\ pc = "done" /\ TookCreate /\ TerminalIs(TRUE, MsgSuccess)
    /\ ~Cancelled
    /\ totalBlocks = 6
    /\ Len(ProgressValues) = 7
    /\ ProgressValues[1] = <<1, 6>>
    /\ ProgressValues[6] = <<1, 1>>

\* C7: every progressUpdated value lies in [0,1] and the values are emitted
\* in non-decreasing order, on the tile loop and on the CreateCopy path.
C7_ProgressMonotoneInUnit ==
    /\ \A i \in DOMAIN ProgressValues :
         /\ FracLeq(<<0, 1>>, ProgressValues[i])
         /\ FracLeq(ProgressValues[i], <<1, 1>>)
    /\ \A i, j \in DOMAIN ProgressValues :
         i < j => FracLeq(ProgressValues[i], ProgressValues[j])

\* the strategy process() has chosen
OnCreatePath == pc = "create" \/ TookCreate
OnCopyPath == pc = "copy" \/ TookCreateCopy

\* C8: in CPU mode the Create path is taken whenever the driver advertises
\* Create, whether or not it advertises CreateCopy; the CreateCopy path is
\* taken only when Create is not advertised and CreateCopy is; when neither
\* is advertised the job fails with the unsupported message and no
\* destination is created.
C8_StrategySelection ==
    (/\ processingMode = "CPU"
     /\ gdal.driverExists
     /\ pc \notin {"start", "driver", "options", "mode"}) =>
        /\ gdal.capCreate => (OnCreatePath /\ ~OnCopyPath /\ ~Did("CreateCopy"))
        /\ OnCopyPath <=> (~gdal.capCreate /\ gdal.capCreateCopy)
        /\ OnCreatePath <=> gdal.capCreate
        /\ (~gdal.capCreate /\ ~gdal.capCreateCopy) =>
             /\ pc = "done"
             /\ TerminalIs(FALSE, MsgUnsupported)
             /\ ~Did("Create") /\ ~Did("CreateCopy")
             /\ poOutDataset = "null"

\* C8 witness: the destination was made with Create although the driver
\* advertises CreateCopy as well.
C8_Witness ==
    /\ processingMode = "CPU"
    /\ gdal.capCreate /\ gdal.capCreateCopy
    /\ Did("Create") /\ poOutDataset = "open"

\* C9 as stated: a GPU job always ends with the fixed "not implemented"
\* failure.
C9_GPUAlwaysNotImplemented ==
    (processingMode = "GPU" /\ pc = "done") => TerminalIs(FALSE, MsgGPU)

\* C9 amended: a GPU job never creates or writes a destination, and it ends
\* with the fixed "not implemented" failure when the source opens and the
\* output driver exists, with the open failure when the source does not
\* open, and with the driver-unavailable failure when the driver is missing.
C9_GPUNeverConverts ==
    processingMode = "GPU" =>
        /\ ~Did("Create") /\ ~Did("CreateCopy") /\ ~Did("RasterIO")
        /\ poOutDataset = "null" /\ written = {}
        /\ pc = "done" =>
             IF ~gdal.srcOpens THEN TerminalIs(FALSE, MsgOpenFailed)
             ELSE IF ~gdal.driverExists
                  THEN TerminalIs(FALSE, MsgDriverUnavailable)
                  ELSE TerminalIs(FALSE, MsgGPU)

\* C9 witness: a GPU job on a source that opens and a driver that exists
\* (and could Create) has ended with the fixed failure.
C9_Witness ==
    /\ processingMode = "GPU" /\ pc = "done"
    /\ gdal.srcOpens /\ gdal.driverExists /\ gdal.capCreate
    /\ TerminalIs(FALSE, MsgGPU)
    /\ poDataset = "closed"

OpenFailed ==
    \E i \in DOMAIN events : events[i].op = "GDALOpenEx" /\ ~events[i].ok

\* C10: when the source cannot be opened the job ends with a single
\* open-failure terminal signal and does nothing else: no driver lookup, no
\* capability query, no creation option, no destination created or copied.
C10_OpenFailureStops ==
    OpenFailed =>
        /\ pc = "done"
        /\ TerminalIs(FALSE, MsgOpenFailed)
        /\ Cardinality(FinishedAt) = 1
        /\ \A i \in DOMAIN events :
             events[i].op \notin {"GetDriverByName", "GetMetadataItem",
                                  "CSLSetNameValue", "Create", "CreateCopy",
                                  "RasterIO", "GDALClose", "progressUpdated"}
        /\ poDataset = "null" /\ poOutDataset = "null" /\ written = {}

\* C10 witness: a job with creation options whose source did not open has
\* ended.
C10_Witness ==
    /\ OpenFailed /\ pc = "done"
    /\ nOptions >= 1
    /\ TerminalIs(FALSE, MsgOpenFailed)

\* ------------------------------------------------ datasets and their closes
\* number of GDALClose calls made on a dataset
IsClose(e, which) == e.op = "GDALClose" /\ e.msg = which
ClosesOf(which) ==
    Cardinality({i \in DOMAIN events : IsClose(events[i], which)})

\* GDALOpenEx returned the source; Create or CreateCopy returned a destination
SourceOpened ==
    \E i \in DOMAIN events : events[i].op = "GDALOpenEx" /\ events[i].ok
DestinationCreated ==
    \E i \in DOMAIN events :
        \/ events[i].op = "Create" /\ events[i].ok
        \/ events[i].op = "CreateCopy" /\ events[i].msg = "returned"

\* the GDAL calls that go through the source, and through the destination
UsesSource(e) ==
    \/ e.op = "RasterIO" /\ e.msg = "GF_Read"
    \/ e.op \in {"GetRasterCount", "GetRasterBand", "Create", "CreateCopy"}
UsesDestination(e) == e.op = "RasterIO" /\ e.msg = "GF_Write"

\* C11: every dataset that was opened or created is closed exactly once
\* when the job has ended, whatever the exit path, never more than once
\* before, a dataset that was never obtained is never closed, and no GDAL
\* call goes through a dataset after its close.
C11_DatasetsClosedOnce ==
    /\ pc = "done" =>
         /\ SourceOpened => ClosesOf("source") = 1
         /\ DestinationCreated => ClosesOf("destination") = 1
         /\ poDataset # "open" /\ poOutDataset # "open"
    /\ \A i \in DOMAIN events :
         /\ IsClose(events[i], "source") =>
                /\ SourceOpened
                /\ \A j \in (i + 1)..Len(events) :
                       /\ ~IsClose(events[j], "source")
                       /\ ~UsesSource(events[j])
         /\ IsClose(events[i], "destination") =>
                /\ DestinationCreated
                /\ \A j \in (i + 1)..Len(events) :
                       /\ ~IsClose(events[j], "destination")
                       /\ ~UsesDestination(events[j])

\* a job that ended on a write failure with both datasets closed once
C11_Witness ==
    /\ pc = "done"
    /\ TerminalIs(FALSE, MsgWriteFailed)
    /\ ClosesOf("source") = 1
    /\ ClosesOf("destination") = 1

\* the destination windows written for band b
WindowsOf(b) == {r.window : r \in {s \in written : s.band = b}}

\* C12: after a successful job on the full-control path the destination was
\* created with the source's width, height and band count, and for every
\* band every pixel of the extent was written exactly once, with the values
\* read from the source for the same band and the same window.
C12_DestinationEqualsSource ==
    (pc = "done" /\ TerminalIs(TRUE, MsgSuccess) /\ TookCreate) =>
        /\ \E i \in DOMAIN events :
               events[i] = Ev("Create", TRUE, "", <<nXSize, nYSize, nBands>>)
        /\ \A r \in written :
               /\ r.band \in 1..nBands
               /\ Inside(r.window)
               /\ r.data = <<r.band>> \o r.window
        /\ \A r, s \in written :
               (r.band = s.band /\ r.window = s.window) => r = s
        /\ \A b \in 1..nBands :
               /\ \A s, t \in WindowsOf(b) : s # t => ~Overlap(s, t)
               /\ SumArea(WindowsOf(b)) = nXSize * nYSize

\* a successful full-control job on the largest raster with several bands
C12_Witness ==
    /\ pc = "done" /\ TerminalIs(TRUE, MsgSuccess) /\ TookCreate
    /\ nXSize = MaxW /\ nYSize = MaxH /\ nBands = MaxBands
    /\ Cardinality(written) = MaxBands * totalBlocks

DriverMissing ==
    \E i \in DOMAIN events :
        events[i].op = "GetDriverByName" /\ ~events[i].ok

\* C13: when the destination driver is unknown the job ends with a single
\* driver-unavailable terminal signal and the source closed (once), without
\* any capability query, creation option, destination creation or copy, tile
\* access or progress update.
C13_UnknownDriverStops ==
    DriverMissing =>
        /\ pc = "done"
        /\ TerminalIs(FALSE, MsgDriverUnavailable)
        /\ Cardinality(FinishedAt) = 1
        /\ ClosesOf("source") = 1 /\ poDataset = "closed"
        /\ \A i \in DOMAIN events :
             events[i].op \notin {"GetMetadataItem", "CSLSetNameValue",
                                  "Create", "CreateCopy", "RasterIO",
                                  "threadPool.start", "progressUpdated"}
        /\ ClosesOf("destination") = 0
        /\ poOutDataset = "null" /\ written = {}

\* a job with creation options whose destination driver is unknown has ended
C13_Witness ==
    /\ DriverMissing /\ pc = "done"
    /\ nOptions >= 1
    /\ TerminalIs(FALSE, MsgDriverUnavailable)
    /\ poDataset = "closed"

\* ------------------------------------------------ cancellation in the loop
\* the last four positions of the record.  A band access, a task start, a
\* progress update or a terminal signal is among the last four events of
\* the step that appends it, and the record only grows, so a property of
\* such an event and of the events before it that holds at these positions
\* in every reachable state holds at every position of every run
Recent == (IF Len(events) > 4 THEN Len(events) - 3 ELSE 1)..Len(events)

IsLoad(e, where) == e.op = "load" /\ e.msg = where
IsRead(e) == e.op = "RasterIO" /\ e.msg = "GF_Read"
IsWrite(e) == e.op = "RasterIO" /\ e.msg = "GF_Write"

\* position of the last load at `where` before position j (0 if none)
RECURSIVE LastLoadBefore(_, _)
LastLoadBefore(where, j) ==
    IF j <= 1 THEN 0
    ELSE IF IsLoad(events[j - 1], where) THEN j - 1
    ELSE LastLoadBefore(where, j - 1)

\* the tiles that received a band write after position c
TilesWrittenAfter(c) ==
    {Tail(events[j].val) : j \in {k \in DOMAIN events : k > c /\ IsWrite(events[k])}}

\* C15: once the flag has been set, a band is read only for a tile whose
\* loop-guard check came before the set, band writes go to at most one tile,
\* the one whose pre-write check had passed before the set, so at most one
\* more tile is completed; and every band write follows a pre-write check,
\* the last one before it, that saw the flag clear.
C15_NoNewTileAfterCancel ==
    /\ \A c \in CancelAt :
         /\ \A j \in (c + 1)..Len(events) :
              /\ IsRead(events[j]) =>
                     LET g == LastLoadBefore("inner", j)
                     IN g # 0 /\ g < c /\ events[g].ok
              /\ IsWrite(events[j]) =>
                     LET g == LastLoadBefore("prewrite", j)
                     IN g # 0 /\ g < c /\ events[g].ok
         /\ Cardinality(TilesWrittenAfter(c)) <= 1
         /\ Cardinality(WrittenTiles) <= events[c].val[1] + 1
    /\ \A j \in Recent :
         IsWrite(events[j]) => events[LastLoadBefore("prewrite", j)].ok

\* the flag was set after a tile's pre-write check had passed; that tile was
\* written in full and the job ended
C15_Witness ==
    /\ Cancelled /\ pc = "done"
    /\ CancelEv.msg \in {"wait", "write"}
    /\ nBands = MaxBands
    /\ Cardinality(TilesWrittenAfter(CHOOSE c \in CancelAt : TRUE)) = 1
    /\ Cardinality(WrittenTiles) = CancelEv.val[1] + 1
    /\ Cardinality(WrittenTiles) < totalBlocks

\* the flag was set between the loop guard and the pre-write check: the
\* tile was read but never written
C15_WitnessNotWritten ==
    /\ Cancelled /\ pc = "done"
    /\ \E i \in DOMAIN events : events[i] = Load("prewrite", FALSE)
    /\ Cardinality(WrittenTiles) = CancelEv.val[1]
    /\ Cardinality(Visited) = Cardinality(WrittenTiles) + 1

\* ------------------------------------------------ the per-tile barrier
CountOp(op, j) == Cardinality({i \in 1..j : events[i].op = op})

\* position of the last event of kind op before position j (0 if none)
RECURSIVE LastOpBefore(_, _)
LastOpBefore(op, j) ==
    IF j <= 1 THEN 0
    ELSE IF events[j - 1].op = op THEN j - 1
    ELSE LastOpBefore(op, j - 1)

\* no BlockProcessor invocation is in flight just before position j: the
\* last one started, if any, has returned
NoneInFlight(j) ==
    LastOpBefore("threadPool.start", j) = 0
        \/ LastOpBefore("threadPool.start", j) < LastOpBefore("BlockProcessor.run", j)

\* C16: a band of a tile is written only after the BlockProcessor started
\* for that tile has returned and the orchestration thread has waited for
\* it; a BlockProcessor is started only when none is in flight, so at most
\* one is in flight at any time; and no band of a tile is read while an
\* invocation for an earlier tile is in flight.
C16_PerTileBarrier ==
    /\ \A j \in Recent :
         IsWrite(events[j]) =>
             LET s == LastOpBefore("threadPool.start", j)
                 r == LastOpBefore("BlockProcessor.run", j)
                 w == LastOpBefore("waitForDone", j)
             IN /\ s # 0 /\ s < r /\ r < w
                /\ events[s].val = Tail(events[j].val)
                /\ events[r].val = Tail(events[j].val)
    /\ \A j \in Recent :
         (IsRead(events[j]) \/ events[j].op = "threadPool.start") =>
             NoneInFlight(j)
    /\ taskState = "queued" <=> ~NoneInFlight(Len(events) + 1)
    /\ pc \in {"read", "write"} => taskState # "queued"

\* a second tile is being read after the first tile's invocation returned
\* and the first tile was written
C16_Witness ==
    /\ pc = "read" /\ bandIndex > 1
    /\ blocksCompleted >= 1
    /\ CountOp("BlockProcessor.run", Len(events)) = blocksCompleted
    /\ CountOp("waitForDone", Len(events)) = blocksCompleted

\* ------------------------------------------------ lifetime of the band buffers
\* the steps of a tile iteration between threadPool.start and waitForDone
HoldingSteps == {"precheck", "wait", "cancel_wait"}

\* C17: while a BlockProcessor holds a reference to the band buffers the
\* orchestration thread is still inside the tile iteration that owns them
\* and the buffers are those it read for that tile; every way out of an
\* iteration in which a task was started (a progress update on the normal
\* way, the terminal signal on a cancellation or a write failure) comes
\* after waitForDone has returned; and a task is started only when no other
\* is in flight, so no buffer is visible to two invocations.
C17_BuffersOutliveTask ==
    /\ taskState = "queued" =>
         /\ pc \in HoldingSteps
         /\ Len(bandData) = nBands
         /\ \A b \in 1..nBands : bandData[b] = <<b>> \o Tile
         /\ events[LastOpBefore("threadPool.start", Len(events) + 1)].val = Tile
    /\ \A j \in Recent :
         (events[j].op \in {"progressUpdated", "finished"}
              /\ LastOpBefore("threadPool.start", j) # 0) =>
             /\ LastOpBefore("threadPool.start", j)
                    < LastOpBefore("BlockProcessor.run", j)
             /\ LastOpBefore("BlockProcessor.run", j)
                    < LastOpBefore("waitForDone", j)
    /\ \A j \in Recent :
         events[j].op = "threadPool.start" => NoneInFlight(j)

\* a job cancelled between the start of a task and the pre-write check has
\* left the iteration after waiting for the task
C17_Witness ==
    /\ pc = "data_failed"
    /\ taskState = "none"
    /\ TerminalIs(FALSE, MsgCancelled)
    /\ events[Len(events) - 1].op = "waitForDone"
    /\ events[Len(events) - 2] = Load("prewrite", FALSE)

\* ------------------------------------------------ band I/O failures
FailedIO == {i \in DOMAIN events : events[i].op = "RasterIO" /\ ~events[i].ok}

\* the terminal message that belongs to a failed band access
IOFailureMsg(e) == IF e.msg = "GF_Read" THEN MsgReadFailed ELSE MsgWriteFailed

\* C18: a failed band read or write is followed at once by the single
\* terminal signal, with the read or write failure message, and then by
\* nothing but the closing of the two datasets (a requestInterruption of
\* the host thread may still arrive): no band is read or written afterwards
\* (the failed access is not retried either), no task is started, no
\* progress is reported, and the completed-tile counter still counts the
\* tiles completed before, the failing tile not among them.
C18_IOFailureStopsJob ==
    /\ Cardinality(FailedIO) <= 1
    /\ \A i \in FailedIO :
         /\ Len(events) > i
         /\ events[i + 1] = Finished(FALSE, IOFailureMsg(events[i]))
         /\ Cardinality(FinishedAt) = 1
         /\ \A j \in (i + 2)..Len(events) :
                events[j].op \in {"GDALClose", "requestInterruption"}
         /\ pc \in {"data_failed", "done"}
         /\ blocksCompleted = Cardinality(WrittenTiles)
         /\ blocksCompleted = Len(ProgressValues)
         /\ Tail(events[i].val) \notin WrittenTiles

\* the write of the last band of the second tile failed, after the first
\* tile was completed, and the job has ended
C18_Witness ==
    /\ pc = "done"
    /\ TerminalIs(FALSE, MsgWriteFailed)
    /\ nBands = MaxBands
    /\ blocksCompleted = 1
    /\ \E i \in FailedIO : events[i].val[1] = MaxBands
    /\ Cardinality(written) = MaxBands + 1

\* the read of a band failed in the second tile and the job has ended
C18_WitnessRead ==
    /\ pc = "done"
    /\ TerminalIs(FALSE, MsgReadFailed)
    /\ blocksCompleted = 1
    /\ Cardinality(Visited) = 1

\* ------------------------------------------------ the completed-tile counter
\* the last band of the current tile is written and fetch_add is next
CountPending == pc = "write" /\ bandIndex > nBands

\* C19 as stated: in every reachable state the completed-tile counter lies
\* between 0 and totalBlocks and equals the number of tiles all of whose
\* bands are written.
C19_CounterEqualsWrittenTiles ==
    /\ 0 <= blocksCompleted /\ blocksCompleted <= totalBlocks
    /\ blocksCompleted = Cardinality(WrittenTiles)

\* C19: the completed-tile counter lies between 0 and totalBlocks and counts
\* the tiles all of whose bands are written: it equals their number, except
\* between the last band write of a tile and the fetch_add that follows it,
\* where that tile is not counted yet; it never decreases, and it grows by
\* one at a time, only at that fetch_add, after the last band of the tile
\* was written, and once per tile.
C19_CounterCountsWrittenTiles ==
    /\ [](/\ 0 <= blocksCompleted /\ blocksCompleted <= totalBlocks
          /\ blocksCompleted + (IF CountPending THEN 1 ELSE 0)
                 = Cardinality(WrittenTiles)
          /\ CountPending => Tile \in WrittenTiles)
    /\ [][\/ blocksCompleted' = blocksCompleted
          \/ /\ blocksCompleted' = blocksCompleted + 1
             /\ CountPending
             /\ Tile \in WrittenTiles
             /\ blocksCompleted' = Cardinality(WrittenTiles)
             /\ written' = written]_vars

\* every tile of the largest raster has been counted
C19_Witness ==
    /\ pc = "inner"
    /\ nXSize = MaxW /\ nYSize = MaxH /\ nBands = MaxBands
    /\ blocksCompleted = totalBlocks
    /\ blocksCompleted = Cardinality(WrittenTiles)
    /\ blocksCompleted >= 6

\* ------------------------------------------------ the block count as a function
\* extents GetRasterXSize and GetRasterYSize can return: any int >= 0.  The
\* samples take in the multiples of the block size, their neighbours, and
\* the largest extents
RasterSizes ==
    {0, 1, blockSizeX - 1, blockSizeX, blockSizeX + 1, 65536, 16777216,
     MaxInt32 - blockSizeX, MaxInt32 - blockSizeX + 1, MaxInt32}

\* processData() is entered on a raster of any extent
InitBlocks ==
    /\ pc = "processData"
    /\ isConverting = TRUE
    /\ processingMode = "CPU"
    /\ nOptions = 0
    /\ gdal = [srcOpens |-> TRUE, driverExists |-> TRUE,
                capCreate |-> TRUE, capCreateCopy |-> FALSE]
    /\ nXSize \in RasterSizes
    /\ nYSize \in RasterSizes
    /\ nBands = 1
    /\ poDataset = "open"
    /\ poOutDataset = "open"
    /\ bCreateSupported = TRUE
    /\ x = 0
    /\ y = 0
    /\ bandIndex = 0
    /\ bandData = <<>>
    /\ blocksCompleted = 0
    /\ taskState = "none"
    /\ written = {}
    /\ callbacks = 0
    /\ events = <<>>
    /\ HostStarted

\* the set-up of processData(), which computes the block counts
NextBlocks == BeginProcessData

SpecBlocks == InitBlocks /\ [][NextBlocks]_vars

\* ceil(n / d) for n >= 0, d > 0, without an intermediate sum
CeilDiv(n, d) == (n \div d) + (IF n % d = 0 THEN 0 ELSE 1)

\* C20: for every extent W >= 0, H >= 0 that fits an int, once the set-up
\* of processData() has run neither addition nor the product of the block
\* count has overflowed, the block counts are ceil(W / 256) and
\* ceil(H / 256), and totalBlocks is their product.
C20_TotalBlocksIsCeilProduct ==
    pc = "outer" =>
        /\ ~BlocksOverflow
        /\ nXBlocks = CeilDiv(nXSize, blockSizeX)
        /\ nYBlocks = CeilDiv(nYSize, blockSizeY)
        /\ totalBlocks
               = CeilDiv(nXSize, blockSizeX) * CeilDiv(nYSize, blockSizeY)

\* where nothing overflows the block count is the product of the ceilings
C20_TotalBlocksWhereNoOverflow ==
    ~BlocksOverflow =>
        /\ nXBlocks = CeilDiv(nXSize, blockSizeX)
        /\ nYBlocks = CeilDiv(nYSize, blockSizeY)
        /\ totalBlocks
               = CeilDiv(nXSize, blockSizeX) * CeilDiv(nYSize, blockSizeY)

\* the set-up has run on a raster of 2^24 x 2^24 pixels: 65536 x 65536 blocks
C20_Overflowing ==
    /\ pc = "outer"
    /\ nXSize = 16777216 /\ nYSize = 16777216
    /\ nXBlocks = 65536 /\ nYBlocks = 65536
    /\ MulOverflows(nXBlocks, nYBlocks)
    /\ totalBlocks = 0

\* ------------------------------------------------ MainWindow::updateProgress
\* values of timer->elapsed() sampled around one second, one hour and 2^24,
\* the first integer a float cannot tell from its successor
ElapsedTimes ==
    {0, 1, 1500, 59999, 3600000, 10000001, 16777215, 16777216, 16777217,
     17000001}

\* values of the slot's float argument, as exact fractions: each is a float
ProgressFloats ==
    {<<-1, 2>>, <<0, 1>>, <<1, 4>>, <<1, 2>>, <<3, 4>>, <<1, 1>>, <<5, 4>>}

\* num / den rounded to the nearest integer, ties to even (num >= 0, den > 0)
RoundHalfEven(num, den) ==
    LET q == num \div den
        r == num % den
    IN IF 2 * r > den \/ (2 * r = den /\ q % 2 = 1) THEN q + 1 ELSE q

\* distance between neighbouring floats at n >= 0: 24 bits of significand
RECURSIVE UlpOf(_)
UlpOf(n) == IF n < 16777216 THEN 1 ELSE 2 * UlpOf(n \div 2)

\* the conversion of the integer n >= 0 to float
ToFloat(n) == UlpOf(n) * RoundHalfEven(n, UlpOf(n))

\* the power of two that scales num / den > 0 into [2^23, 2^24)
RECURSIVE ScaleOf(_, _)
ScaleOf(num, den) ==
    IF num >= 8388608 * den THEN 1 ELSE 2 * ScaleOf(2 * num, den)

\* static_cast<qint64>(f / p): the float quotient of the float f >= 0 (an
\* integer) by the float p = a / b > 0, rounded to float, then truncated
TruncFloatDiv(f, a, b) ==
    LET num == f * b
        den == a
    IN IF num = 0 THEN 0
       ELSE IF num >= 16777216 * den
       THEN LET u == UlpOf(num \div den) IN u * RoundHalfEven(num, den * u)
       ELSE LET s == ScaleOf(num, den) IN RoundHalfEven(num * s, den) \div s

\* a % b of C++: the remainder has the sign of a
RemTrunc(a, b) == a - b * DivInt32(a, b)

\* the clock moves on between two calls
TimerAdvance ==
    /\ \E t \in ElapsedTimes : t > timerElapsed /\ timerElapsed' = t
    /\ UNCHANGED <<workerVars, guiVars, progressBar, etaLabel, lastUpdate>>

\* the slot updateProgress(float progress), progress = p[1] / p[2]
updateProgress ==
    \E p \in ProgressFloats :
        LET elapsed == timerElapsed
            estimatedTotal == TruncFloatDiv(ToFloat(elapsed), p[1], p[2])
            estimatedRemaining == estimatedTotal - elapsed
            hours == DivInt32(estimatedRemaining, 3600000)
            minutes == DivInt32(RemTrunc(estimatedRemaining, 3600000), 60000)
            seconds == DivInt32(RemTrunc(estimatedRemaining, 60000), 1000)
        IN /\ progressBar' = DivInt32(100 * p[1], p[2])
           /\ IF p[1] > 0 /\ p[1] <= p[2]
              THEN /\ etaLabel' = EtaTime(hours, minutes, seconds)
                   /\ lastUpdate' = [called |-> TRUE, progress |-> p,
                                     elapsed |-> elapsed,
                                     estimatedRemaining |-> estimatedRemaining]
              ELSE /\ etaLabel' = EtaCalculating
                   /\ lastUpdate' = [called |-> TRUE, progress |-> p,
                                     elapsed |-> elapsed,
                                     estimatedRemaining |-> 0]
           /\ UNCHANGED <<workerVars, guiVars, timerElapsed>>

\* the window of a running conversion: the clock runs and progress updates
\* arrive
NextEta ==
    \/ TimerAdvance
    \/ updateProgress

\* the window right after startConversion() started a job
InitEta == Init /\ processingMode = "CPU" /\ nOptions = 0

SpecEta == InitEta /\ [][NextEta]_vars

\* the fraction of the last call lies in (0, 1]
InUnit(p) == p[1] > 0 /\ p[1] <= p[2]

\* hh:mm:ss of a number of milliseconds >= 0
TimeOf(ms) ==
    EtaTime(ms \div 3600000, (ms % 3600000) \div 60000, (ms % 60000) \div 1000)

\* est differs from elapsed / fraction - elapsed by less than a millisecond
WithinOneMs(est, elapsed, p) ==
    LET d == est * p[1] - elapsed * (p[2] - p[1])
    IN -p[1] < d /\ d < p[1]

\* C14: after every update with a fraction in (0, 1] the estimate is a
\* non-negative number, equal to elapsed / fraction - elapsed (to within a
\* millisecond) for the elapsed time read at that update, and the label
\* shows it; after an update with a fraction <= 0 or > 1 the label shows the
\* estimate as unknown.
C14_EtaNonNegativeExact ==
    lastUpdate.called =>
        IF InUnit(lastUpdate.progress)
        THEN /\ lastUpdate.estimatedRemaining >= 0
             /\ WithinOneMs(lastUpdate.estimatedRemaining,
                            lastUpdate.elapsed, lastUpdate.progress)
             /\ etaLabel = TimeOf(lastUpdate.estimatedRemaining)
        ELSE etaLabel = EtaCalculating

\* what holds of the code: the label shows an estimate exactly for the
\* fractions in (0, 1]; the estimate is never negative when the elapsed
\* time is a float, and it is as C14 says when the elapsed time is below
\* 2^24 ms
C14_EtaWhereFloatIsExact ==
    lastUpdate.called =>
        IF InUnit(lastUpdate.progress)
        THEN /\ etaLabel.text = "ETA: hh:mm:ss"
             /\ ToFloat(lastUpdate.elapsed) = lastUpdate.elapsed =>
                    /\ lastUpdate.estimatedRemaining >= 0
                    /\ etaLabel = TimeOf(lastUpdate.estimatedRemaining)
             /\ lastUpdate.elapsed < 16777216 =>
                    WithinOneMs(lastUpdate.estimatedRemaining,
                                lastUpdate.elapsed, lastUpdate.progress)
        ELSE etaLabel = EtaCalculating

\* the estimate is negative: 2^24 + 1 ms have elapsed and the fraction is 1
C14_NegativeEstimate ==
    /\ lastUpdate.called
    /\ lastUpdate.progress = <<1, 1>>
    /\ lastUpdate.elapsed = 16777217
    /\ lastUpdate.estimatedRemaining = -1

\* the label is a second short: 17000001 ms have elapsed, the fraction is
\* 1/4, the label shows 14:09:59 and the estimate is 14:10:00
C14_LabelOneSecondShort ==
    /\ lastUpdate.called
    /\ lastUpdate.progress = <<1, 4>>
    /\ lastUpdate.elapsed = 17000001
    /\ etaLabel = EtaTime(14, 9, 59)
    /\ TimeOf(3 * lastUpdate.elapsed) = EtaTime(14, 10, 0)

\* ------------------------------------------------ the order of the tiles
\* origin of the k-th tile (k >= 1) of the row-major order over the extent
RowMajorOrigin(k) ==
    <<((k - 1) % nXBlocks) * blockSizeX, ((k - 1) \div nXBlocks) * blockSizeY>>

\* tile s comes before tile t in row-major order
RowMajorBefore(s, t) == s[2] < t[2] \/ (s[2] = t[2] /\ s[1] < t[1])

\* C21: the tiles are visited in row-major order: the k-th tile visited is
\* the k-th tile of the row-major order over the nXSize x nYSize extent (so
\* the sequence is a function of the extent alone), every tile visited
\* earlier lies in an earlier row or further left in the same row, and an
\* uncancelled, failure-free loop visits the whole order.
C21_RowMajorOrder ==
    \A V \in {VisitedSeq} :
        /\ \A k \in DOMAIN V :
               /\ <<V[k][1], V[k][2]>> = RowMajorOrigin(k)
               /\ V[k][3] = Min(blockSizeX, nXSize - V[k][1])
               /\ V[k][4] = Min(blockSizeY, nYSize - V[k][2])
        /\ \A i, j \in DOMAIN V : i < j => RowMajorBefore(V[i], V[j])
        /\ pc = "data_ok" => Len(V) = totalBlocks

\* the loop has ended over the largest extent: two rows of three tiles, the
\* fourth tile visited being the first of the second row
C21_Witness ==
    /\ pc = "data_ok"
    /\ nXSize = MaxW /\ nYSize = MaxH
    /\ Len(VisitedSeq) = 6
    /\ VisitedSeq[3][1] = 2 * blockSizeX /\ VisitedSeq[3][2] = 0
    /\ VisitedSeq[4][1] = 0 /\ VisitedSeq[4][2] = blockSizeY

\* ------------------------------------------------ the cancellation flag
\* C22: the flag starts as "converting"; it is clear exactly when
\* requestInterruption has been called; no step sets it back; the only step
\* that changes it is requestInterruption; and a requestInterruption on a
\* flag that is already clear changes nothing.
C22_FlagOneWay ==
    /\ isConverting = TRUE
    /\ [](isConverting <=> ~Cancelled)
    /\ [][/\ isConverting' => isConverting
          /\ isConverting' # isConverting => requestInterruption
          /\ (~isConverting /\ requestInterruption) => UNCHANGED vars]_vars

\* the flag was cleared while a tile was being read, and it is still clear
\* when the job has ended, several steps of the worker later
C22_Witness ==
    /\ pc = "done"
    /\ ~isConverting
    /\ Cancelled /\ CancelEv.msg = "read"
    /\ Cardinality(CancelAt) = 1
    /\ TerminalIs(FALSE, MsgCancelled)

\* ------------------------------------------------ the CreateCopy callback
\* positions of the callback's loads of the flag
CallbackAt == {i \in DOMAIN events : IsLoad(events[i], "callback")}

\* C23: a call of the progress callback that finds the flag not set forwards
\* the driver's fraction as the next signal and lets the copy go on; a call
\* that finds it set emits nothing and makes the copy stop, and no progress
\* update follows it; on the CreateCopy path every progress update is the
\* forwarding of a callback that found the flag not set.
C23_CallbackFollowsFlag ==
    /\ \A i \in CallbackAt :
         /\ Len(events) > i
         /\ IF events[i].ok
            THEN /\ events[i + 1].op = "progressUpdated"
                 /\ events[i + 1].val \in CopyFractions
            ELSE /\ events[i + 1] = Ev("CreateCopy", FALSE, "aborted", <<>>)
                 /\ pc \in {"copy_null", "returned_false", "done"}
                 /\ \A j \in (i + 1)..Len(events) :
                        /\ events[j].op # "progressUpdated"
                        /\ ~IsLoad(events[j], "callback")
    /\ TookCreateCopy =>
         /\ \A j \in DOMAIN events :
                events[j].op = "progressUpdated" =>
                    j > 1 /\ events[j - 1] = Load("callback", TRUE)
         /\ Len(ProgressValues)
                = Cardinality({i \in CallbackAt : events[i].ok})
    /\ (TookCreateCopy /\ pc = "copying") =>
         \A i \in CallbackAt : events[i].ok

\* a copy that reported progress twice was aborted by the third call of the
\* callback, and the job has ended
C23_Witness ==
    /\ pc = "done" /\ TookCreateCopy
    /\ Cardinality(CallbackAt) = 3
    /\ Len(ProgressValues) = 2
    /\ \E i \in CallbackAt : ~events[i].ok
    /\ DidMsg("CreateCopy", "aborted")
    /\ TerminalIs(FALSE, MsgCreateCopyFailed)

\* ------------------------------------------------ no rollback
\* the band windows whose RasterIO(GF_Write) returned CE_None
WrittenByEvents ==
    {<<events[i].val[1], Tail(events[i].val)>> :
        i \in {k \in DOMAIN events : IsWrite(events[k]) /\ events[k].ok}}

\* the job ended without success after the destination was created
FailedAfterCreate ==
    /\ pc = "done"
    /\ DestinationCreated
    /\ HasFinished /\ ~Terminal.ok

\* C24: the destination holds every band window that was ever written to it
\* and nothing is taken out of it again by any step; a destination that was
\* created is never deleted or reset, only closed; and when a job has ended
\* in a cancellation or a failure after the destination was created, the
\* destination was closed once and still holds the tiles written before.
C24_NoRollback ==
    /\ [](/\ {<<r.band, r.window>> : r \in written} = WrittenByEvents
          /\ FailedAfterCreate =>
               /\ poOutDataset = "closed"
               /\ ClosesOf("destination") = 1
               /\ Cardinality(WrittenTiles) >= blocksCompleted)
    /\ [][/\ written \subseteq written'
          /\ poOutDataset = "open" => poOutDataset' \in {"open", "closed"}
          /\ poOutDataset = "closed" => poOutDataset' = "closed"]_vars

\* a job cancelled after some but not all tiles were written has ended: the
\* destination is closed and holds those tiles
C24_Witness ==
    /\ FailedAfterCreate
    /\ TerminalIs(FALSE, MsgCancelled)
    /\ nBands = MaxBands
    /\ Cardinality(WrittenTiles) \in 2..(totalBlocks - 1)
    /\ Cardinality(written) = MaxBands * Cardinality(WrittenTiles)
    /\ events[Len(events) - 1] = Close("destination")

\* a job whose write failed in the second tile has ended: the first tile and
\* the bands of the second written before the failure are still there
C24_WitnessWriteFailed ==
    /\ FailedAfterCreate
    /\ TerminalIs(FALSE, MsgWriteFailed)
    /\ nBands = MaxBands
    /\ Cardinality(WrittenTiles) = 1
    /\ Cardinality(written) = MaxBands + 1

\* ------------------------------------------------ termination
\* the steps of the worker thread, of the pool thread and of the driver: all
\* of Next but the host's requestInterruption
WorkerNext ==
    \/ OpenInput
    \/ GetOutputDriver
    \/ SetOptions
    \/ ProcessCPU
    \/ ProcessGPU
    \/ CreateOutput
    \/ ReturnFalse
    \/ BeginProcessData
    \/ OuterGuard
    \/ InnerGuard
    \/ ReadBand
    \/ StartTask
    \/ BlockProcessorRun
    \/ PreWriteCheck
    \/ CancelBeforeWrite
    \/ WaitForDone
    \/ WriteBand
    \/ UpdateProgress
    \/ PostLoop
    \/ DataFailed
    \/ Succeed
    \/ BeginCreateCopy
    \/ progressCallback
    \/ CreateCopyReturns
    \/ CreateCopyFailed

\* the worker thread and the pool thread keep running, and every GDAL call
\* returns; the host is not obliged to do anything
SpecLive == Init /\ [][Next]_vars /\ WF_vars(WorkerNext)

\* the tiles read, handed to a task or written after position c
TilesTouchedAfter(c) ==
    {IF events[j].op = "RasterIO" THEN Tail(events[j].val) ELSE events[j].val :
        j \in {k \in DOMAIN events :
                 k > c /\ events[k].op \in {"RasterIO", "threadPool.start"}}}

\* the flag was set while processData() was in its loops
CancelInLoop ==
    /\ Cancelled
    /\ CancelEv.msg \in {"outer", "inner", "read", "precheck", "wait",
                         "cancel_wait", "write", "post"}

\* C25: every job, cancelled or not, comes to its end with its one terminal
\* signal emitted and stays there; and after a requestInterruption that
\* falls into the tile loop the bands of at most one tile are read,
\* processed or written.
C25_JobTerminates ==
    /\ <>[](pc = "done" /\ Cardinality(FinishedAt) = 1)
    /\ [](CancelInLoop =>
            \A c \in CancelAt : Cardinality(TilesTouchedAfter(c)) <= 1)

\* a job cancelled while its second tile was being written has ended, that
\* tile being the only one touched after the cancellation
C25_Witness ==
    /\ pc = "done"
    /\ CancelInLoop /\ CancelEv.msg = "write"
    /\ CancelEv.val[1] = 1
    /\ Cardinality(WrittenTiles) = 2
    /\ totalBlocks >= 3
    /\ Cardinality(TilesTouchedAfter(CHOOSE c \in CancelAt : TRUE)) = 1
    /\ TerminalIs(FALSE, MsgCancelled)

\* ------------------------------------------------ closes and the terminal signal
\* the dataset `which` was obtained before position f and not closed before it
OpenAt(which, f) ==
    /\ \E i \in 1..(f - 1) :
           IF which = "source"
           THEN events[i].op = "GDALOpenEx" /\ events[i].ok
           ELSE \/ events[i].op = "Create" /\ events[i].ok
                \/ events[i].op = "CreateCopy" /\ events[i].msg = "returned"
    /\ ~\E j \in 1..(f - 1) : IsClose(events[j], which)

\* C26: on every terminal path, when finished is emitted every dataset the
\* job has opened or created has been closed.
C26_FinishedAfterCloses ==
    \A f \in FinishedAt :
        /\ ~OpenAt("source", f)
        /\ ~OpenAt("destination", f)

\* what holds of the code: the datasets are closed before finished on
\* success, and on the failures that process() itself reports after the
\* source was opened (driver unavailable, neither capability, GPU mode); on
\* the failures and the cancellation reported inside a strategy the source is
\* still open when finished is emitted, and so is the destination when it
\* had been created
C26_ClosedBeforeSuccessOnly ==
    \A f \in FinishedAt :
        IF events[f].msg \in {MsgSuccess, MsgDriverUnavailable,
                              MsgUnsupported, MsgGPU, MsgOpenFailed}
        THEN ~OpenAt("source", f) /\ ~OpenAt("destination", f)
        ELSE /\ OpenAt("source", f)
             /\ OpenAt("destination", f)
                    <=> events[f].msg \in {MsgReadFailed, MsgWriteFailed,
                                           MsgCancelled}

\* a cancelled job has emitted finished and both datasets are still open
C26_FinishedWhileOpen ==
    /\ TerminalIs(FALSE, MsgCancelled)
    /\ pc = "data_failed"
    /\ poDataset = "open" /\ poOutDataset = "open"
    /\ ClosesOf("source") = 0 /\ ClosesOf("destination") = 0

\* a job on a source without bands has emitted finished and the source is
\* still open
C26_FinishedWhileSourceOpen ==
    /\ TerminalIs(FALSE, MsgNoBands)
    /\ pc = "returned_false"
    /\ poDataset = "open"
    /\ ClosesOf("source") = 0

\* ------------------------------------------------ MainWindow and its jobs
\* number of conversions the user starts
MaxJobs == 3

\* etaLabel when no conversion is running
EtaNA == [text |-> "ETA: N/A", h |-> 0, m |-> 0, s |-> 0]

\* what a job of the window leaves alone in the Worker's GDAL state
gdalVars == <<gdal, srcVars, poDataset, poOutDataset, bCreateSupported,
              loopVars, callbacks>>

\* the window as MainWindow::MainWindow leaves it: no Worker, Start enabled,
\* Cancel disabled
InitHost ==
    /\ pc = "idle"
    /\ isConverting = TRUE
    /\ processingMode = "CPU"
    /\ nOptions = 0
    /\ gdal = [srcOpens |-> FALSE, driverExists |-> FALSE,
                capCreate |-> FALSE, capCreateCopy |-> FALSE]
    /\ nXSize = 0
    /\ nYSize = 0
    /\ nBands = 0
    /\ poDataset = "null"
    /\ poOutDataset = "null"
    /\ bCreateSupported = FALSE
    /\ x = 0
    /\ y = 0
    /\ bandIndex = 0
    /\ bandData = <<>>
    /\ blocksCompleted = 0
    /\ taskState = "none"
    /\ written = {}
    /\ callbacks = 0
    /\ events = <<>>
    /\ timerElapsed = 0
    /\ progressBar = 0
    /\ etaLabel = EtaNA
    /\ lastUpdate = NoUpdate
    /\ worker = 0
    /\ thread = 0
    /\ liveWorkers = {}
    /\ deferredDelete = {}
    /\ mainQueue = <<>>
    /\ startButton = TRUE
    /\ cancelButton = FALSE
    /\ nWorkers = 0
    /\ danglingUse = "none"
    /\ windowClosed = FALSE

\* MainWindow::startConversion on valid paths, run by a click on the enabled
\* Start button: the buttons are switched, the bar, the label and the timer
\* are reset, a Worker and its thread are created and started
startConversion ==
    /\ ~windowClosed
    /\ startButton
    /\ nWorkers < MaxJobs
    /\ startButton' = FALSE
    /\ cancelButton' = TRUE
    /\ progressBar' = 0
    /\ etaLabel' = EtaCalculating
    /\ timerElapsed' = 0
    /\ processingMode' \in ProcessingMode
    /\ nWorkers' = nWorkers + 1
    /\ worker' = nWorkers + 1
    /\ thread' = nWorkers + 1
    /\ liveWorkers' = liveWorkers \cup {nWorkers + 1}
    /\ isConverting' = TRUE
    /\ events' = <<>>
    /\ pc' = "start"
    /\ UNCHANGED <<gdalVars, nOptions, lastUpdate, deferredDelete, mainQueue,
                   danglingUse, windowClosed>>

\* Worker::process of the running Worker as the window sees it: it runs to
\* its end and emits finished once.  The connection to
\* MainWindow::conversionFinished is queued (the window lives in the main
\* thread), the one to Worker::deleteLater is direct (the Worker lives in
\* the emitting thread)
process ==
    /\ ~windowClosed
    /\ pc = "start"
    /\ \E ok \in BOOLEAN :
         /\ ok => processingMode = "CPU"
         /\ events' = <<Finished(ok, IF ok THEN MsgSuccess
                                     ELSE IF ~isConverting THEN MsgCancelled
                                     ELSE IF processingMode = "GPU" THEN MsgGPU
                                     ELSE MsgOpenFailed)>>
    /\ pc' = "done"
    /\ mainQueue' = Append(mainQueue, nWorkers)
    /\ deferredDelete' = deferredDelete \cup {nWorkers}
    /\ UNCHANGED <<gdalVars, jobVars, isConverting, timerElapsed, progressBar,
                   etaLabel, lastUpdate, worker, thread, liveWorkers,
                   startButton, cancelButton, nWorkers, danglingUse,
                   windowClosed>>

\* the event loop of a Worker's thread handles the deferred delete, once
\* process() has returned to it: the Worker is destroyed
WorkerDeleted ==
    /\ ~windowClosed
    /\ \E w \in deferredDelete \cap liveWorkers :
         /\ w = nWorkers => pc = "done"
         /\ liveWorkers' = liveWorkers \ {w}
         /\ deferredDelete' = deferredDelete \ {w}
    /\ UNCHANGED <<workerVars, timerElapsed, progressBar, etaLabel,
                   lastUpdate, worker, thread, mainQueue, startButton,
                   cancelButton, nWorkers, danglingUse, windowClosed>>

\* faulty variant of cancelConversion: the Start button is enabled again as
\* soon as the cancellation is requested
cancelConversion_EnablesStart ==
    /\ ~windowClosed
    /\ cancelButton
    /\ cancelButton' = FALSE
    /\ startButton' = TRUE
    /\ IF worker = 0
       THEN UNCHANGED <<isConverting, danglingUse, windowClosed>>
       ELSE IF worker \in liveWorkers
       THEN /\ isConverting' = FALSE
            /\ UNCHANGED <<danglingUse, windowClosed>>
       ELSE /\ danglingUse' = "cancelConversion"
            /\ windowClosed' \in BOOLEAN
            /\ UNCHANGED isConverting
    /\ UNCHANGED <<pc, jobVars, gdalVars, events, timerElapsed, progressBar,
                   etaLabel, lastUpdate, worker, thread, liveWorkers,
                   deferredDelete, mainQueue, nWorkers>>

\* MainWindow::cancelConversion, run by a click on the enabled Cancel
\* button.  worker->requestInterruption() through a pointer to a destroyed
\* Worker is undefined: the call may go unnoticed or end the program
cancelConversion ==
    /\ ~windowClosed
    /\ cancelButton
    /\ cancelButton' = FALSE
    /\ IF worker = 0
       THEN UNCHANGED <<isConverting, danglingUse, windowClosed>>
       ELSE IF worker \in liveWorkers
       THEN /\ isConverting' = FALSE
            /\ UNCHANGED <<danglingUse, windowClosed>>
       ELSE /\ danglingUse' = "cancelConversion"
            /\ windowClosed' \in BOOLEAN
            /\ UNCHANGED isConverting
    /\ UNCHANGED <<pc, jobVars, gdalVars, events, timerElapsed, progressBar,
                   etaLabel, lastUpdate, worker, thread, liveWorkers,
                   deferredDelete, mainQueue, startButton, nWorkers>>

\* MainWindow::conversionFinished, the queued call posted by finished: the
\* buttons are switched back, the label is reset, the message box is shown
\* and closed, and the pointers are cleared
conversionFinished ==
    /\ ~windowClosed
    /\ mainQueue # <<>>
    /\ mainQueue' = Tail(mainQueue)
    /\ startButton' = TRUE
    /\ cancelButton' = FALSE
    /\ etaLabel' = EtaNA
    /\ worker' = 0
    /\ thread' = 0
    /\ UNCHANGED <<workerVars, timerElapsed, progressBar, lastUpdate,
                   liveWorkers, deferredDelete, nWorkers, danglingUse,
                   windowClosed>>

\* MainWindow::~MainWindow, when the window is closed and app.exec() has
\* returned: queued calls still pending are not delivered any more
MainWindowDestructor ==
    /\ ~windowClosed
    /\ windowClosed' = TRUE
    /\ IF worker = 0
       THEN UNCHANGED <<isConverting, deferredDelete, danglingUse>>
       ELSE IF worker \in liveWorkers
       THEN /\ isConverting' = FALSE
            /\ deferredDelete' = deferredDelete \cup {worker}
            /\ UNCHANGED danglingUse
       ELSE /\ danglingUse' = "~MainWindow"
            /\ UNCHANGED <<isConverting, deferredDelete>>
    /\ UNCHANGED <<pc, jobVars, gdalVars, events, timerElapsed, progressBar,
                   etaLabel, lastUpdate, worker, thread, liveWorkers,
                   mainQueue, startButton, cancelButton, nWorkers>>

NextHost ==
    \/ startConversion
    \/ process
    \/ WorkerDeleted
    \/ cancelConversion
    \/ conversionFinished
    \/ MainWindowDestructor

SpecHost == InitHost /\ [][NextHost]_vars

\* C27: every call that cancelConversion and the MainWindow destructor make
\* through the worker pointer reaches a Worker that has not been destroyed.
C27_WorkerPointerLive ==
    danglingUse = "none"

\* the worker pointer is cleared only by conversionFinished, the Worker is
\* destroyed by its own thread: between the two the pointer dangles while
\* Cancel is still enabled
C27_PointerDangles ==
    /\ worker # 0
    /\ worker \notin liveWorkers
    /\ cancelButton
    /\ mainQueue = <<worker>>
    /\ danglingUse = "none"

\* cancelConversion called requestInterruption on a destroyed Worker
C27_CancelOnDeleted ==
    /\ danglingUse = "cancelConversion"
    /\ worker \notin liveWorkers
    /\ mainQueue # <<>>

\* the destructor called requestInterruption on a destroyed Worker
C27_DestructorOnDeleted ==
    /\ danglingUse = "~MainWindow"
    /\ windowClosed
    /\ worker \notin liveWorkers

NoBands ==
    \E i \in DOMAIN events : events[i] = GetRasterCount(0)

\* C29: on the Create path a source with zero raster bands makes the job
\* stop with the single no-bands terminal signal: the pixel type of the
\* first band is not asked for, no destination is created, no band is read
\* or written, no task is started and no progress is reported; and in every
\* job the pixel type of the first band is asked for only after
\* GetRasterCount has returned a count of at least one.
C29_NoBandsStopsBeforeCreate ==
    /\ NoBands =>
         /\ TookCreate
         /\ pc \in {"returned_false", "done"}
         /\ TerminalIs(FALSE, MsgNoBands)
         /\ Cardinality(FinishedAt) = 1
         /\ \A i \in DOMAIN events :
              events[i].op \notin {"GetRasterBand", "Create", "CreateCopy",
                                   "RasterIO", "threadPool.start",
                                   "progressUpdated"}
         /\ ClosesOf("destination") = 0
         /\ poOutDataset = "null" /\ written = {} /\ blocksCompleted = 0
    /\ \A i \in DOMAIN events :
         events[i].op = "GetRasterBand" =>
             /\ i > 1
             /\ events[i - 1].op = "GetRasterCount"
             /\ events[i - 1].val[1] >= 1
    /\ \A i \in DOMAIN events :
         events[i].op = "Create" =>
             i > 2 /\ events[i - 2].op = "GetRasterCount"

\* a job on a source without bands has ended: the source is closed and no
\* destination exists
C29_Witness ==
    /\ NoBands /\ pc = "done"
    /\ gdal.capCreate
    /\ TerminalIs(FALSE, MsgNoBands)
    /\ poDataset = "closed" /\ poOutDataset = "null"
    /\ ClosesOf("source") = 1

\* ------------------------------------------------ a raster of empty extent
\* processData() runs on a raster with no pixels
EmptyExtent ==
    /\ EnteredTileLoop
    /\ nXSize = 0 \/ nYSize = 0

\* C30: on a raster of empty extent the tile loop visits no tile: no band is
\* read or written, no task is started, the completed-tile counter stays 0
\* and the only progress update is the final 1.0, so completed / total is
\* never computed with a total of 0; a job on which no check found the flag
\* set ends with that update as its last progress update, followed by the
\* success signal.  In every job the counter moves only when the total is
\* positive.
C30_EmptyExtentSucceeds ==
    /\ [](EmptyExtent =>
            /\ totalBlocks = 0
            /\ Len(VisitedSeq) = 0
            /\ ~Did("RasterIO") /\ ~Did("threadPool.start")
            /\ blocksCompleted = 0 /\ written = {}
            /\ \A i \in DOMAIN ProgressValues : ProgressValues[i] = <<1, 1>>
            /\ Len(ProgressValues) <= 1
            /\ (pc = "done" /\ ~ObservedCancel) =>
                   /\ Len(ProgressValues) = 1
                   /\ TerminalIs(TRUE, MsgSuccess)
                   /\ \E i \in DOMAIN events : \E f \in FinishedAt :
                          events[i] = Progress(<<1, 1>>) /\ i < f)
    /\ [][blocksCompleted' # blocksCompleted => totalBlocks > 0]_vars

\* an uncancelled job on a raster of width 0 and several rows has ended with
\* success after the single update 1.0
C30_Witness ==
    /\ EmptyExtent /\ pc = "done"
    /\ nXSize = 0 /\ nYSize = MaxH
    /\ ~Cancelled
    /\ ProgressValues = <<<<1, 1>>>>
    /\ TerminalIs(TRUE, MsgSuccess)
    /\ Cardinality({i \in DOMAIN events : IsLoad(events[i], "outer")}) = 2

\* the same on a raster of height 0: the row loop is not entered
C30_WitnessNoRows ==
    /\ EmptyExtent /\ pc = "done"
    /\ nXSize = MaxW /\ nYSize = 0
    /\ ~Cancelled
    /\ ProgressValues = <<<<1, 1>>>>
    /\ TerminalIs(TRUE, MsgSuccess)

====
